---- MODULE Spec2Model ----
(***************************************************************************)
(* zenmcp: the length-prefixed framing codec (protocol), the method        *)
(* router (runtime), the connection loop of the server (mcp) and the       *)
(* contexts and Close calls of its transports.                             *)
(*                                                                         *)
(* Byte strings are sequences of one-character strings.  JSON texts are    *)
(* the serializations of a finite universe of documents (JSONDocs);        *)
(* encoding/json is modelled by its type-directed rules over them.         *)
(***************************************************************************)
EXTENDS Integers, Sequences, FiniteSets, TLC

VARIABLES
  variant,    \* which LengthPrefixedCodec.Decode source is linked
  wire,       \* bytes written to the stream and not yet consumed by the codec's reader
  closed,     \* the writing side has closed the stream (the reader sees EOF after wire)
  sent,       \* the values handed to Encode and written, in order
  failed,     \* the values Encode was handed and returned an error for
  closers,    \* who has called Close on the codec
  rwCloses,   \* the number of Close calls the underlying stream has received
  results,    \* the outcome of every Decode call, in order
  consumed,   \* number of bytes the codec's reader has consumed in total
  script,     \* how a hand-written stream was put together: its header lines and its tail
  targetType, \* the Go type of the value Decode is handed on a hand-written stream
  transport,  \* the transport the server was constructed with: "stdio" or "http"
  ctxDone,    \* the context Serve was called with is done
  connDone,   \* per connection: conn.Context() is done
  serve,      \* where Serve stands: "accept" or "returned"
  connCloses, \* per connection: the conn.Close() calls of handleConnection
  tools,      \* registry.Registry.tools: the names of the registered tools
  writing,    \* the name a running RegisterTool is storing in the map, "" when none is
  posted,     \* per connection: the messages the client has written, in order
  input,      \* per connection: the bytes written by the client and not yet consumed
  inputClosed,\* per connection: the client has closed its side
  pc,         \* per connection: where handleConnection stands
  decoded,    \* per connection: the messages Decode has returned, in order
  settled,    \* per connection: the number of processMessage calls that have returned
  active,     \* per connection: the decoded messages whose handler is running
  calls,      \* per connection: the handlers Route has invoked, in order
  routed,     \* per connection: what every Route call returned, in order
  output,     \* per connection: the Responses handed to codec.Encode, in order
  logged      \* per connection: what handleConnection has logged

closeVars == <<closers, rwCloses>>

codecVars == <<variant, wire, closed, sent, failed, closeVars, results, consumed, script,
               targetType>>

ctxVars == <<transport, ctxDone, connDone, serve>>

serverVars == <<ctxVars, connCloses, tools, writing, posted, input, inputClosed, pc,
               decoded, settled, active, calls, routed, output, logged>>

vars == <<codecVars, serverVars>>

(***************************************************************************)
(* Bounds of the model.                                                    *)
(***************************************************************************)
MaxLines == 2      \* header lines ahead of the tail in a hand-written stream
MaxEncodes == 2    \* Encode calls on one stream
MaxDecodes == 3    \* Decode calls on one stream
MaxPosted == 2     \* messages the clients of one server write, all connections together

(***************************************************************************)
(* Bytes.                                                                  *)
(***************************************************************************)
CR == "\r"
LF == "\n"

Bytes(s) ==
  CASE s = "" -> <<>>
    [] s = "a" -> <<"a">>
    [] s = "2.0" -> <<"2",".","0">>
    [] s = "initialize" -> <<"i","n","i","t","i","a","l","i","z","e">>
    [] s = "tools/list" -> <<"t","o","o","l","s","/","l","i","s","t">>
    [] s = "tools/call" -> <<"t","o","o","l","s","/","c","a","l","l">>
    [] s = "unknown" -> <<"u","n","k","n","o","w","n">>
    [] s = "resources/read" -> <<"r","e","s","o","u","r","c","e","s","/","r","e","a","d">>
    [] s = "null" -> <<"n","u","l","l">>
    [] s = "true" -> <<"t","r","u","e">>
    [] s = "1" -> <<"1">>
    [] s = "9007199254740993" -> <<"9","0","0","7","1","9","9","2","5","4","7","4","0","9","9","3">>
    [] s = "9007199254740992" -> <<"9","0","0","7","1","9","9","2","5","4","7","4","0","9","9","2">>
    [] s = "[]" -> <<"[","]">>
    [] s = "{}" -> <<"{","}">>
    [] s = "{\"name\":\"add\"}" -> <<"{","\"","n","a","m","e","\"",":","\"","a","d","d","\"","}">>
    [] s = "{\"name\":\"add\",\"arguments\":[ 1]}" ->
         <<"{","\"","n","a","m","e","\"",":","\"","a","d","d","\"",",",
           "\"","a","r","g","u","m","e","n","t","s","\"",":","[", " ", "1", "]", "}">>
    [] s = "{\"name\":\"ghost\"}" -> <<"{","\"","n","a","m","e","\"",":","\"","g","h","o","s","t","\"","}">>
    [] s = "jsonrpc" -> <<"j","s","o","n","r","p","c">>
    [] s = "id" -> <<"i","d">>
    [] s = "method" -> <<"m","e","t","h","o","d">>
    [] s = "params" -> <<"p","a","r","a","m","s">>

\* unicode.IsSpace restricted to the bytes of the model
IsSpace(c) == c \in {" ", "\t", "\r", "\n"}

Digits == <<"0","1","2","3","4","5","6","7","8","9">>

IsDigit(c) == \E i \in 1..10 : Digits[i] = c

DigitVal(c) == (CHOOSE i \in 1..10 : Digits[i] = c) - 1

\* strings.ToLower on one ASCII byte (the simple case folding EqualFold applies)
Lower(c) ==
  CASE c = "C" -> "c" [] c = "O" -> "o" [] c = "N" -> "n" [] c = "T" -> "t"
    [] c = "E" -> "e" [] c = "L" -> "l" [] c = "G" -> "g" [] c = "H" -> "h"
    [] c = "X" -> "x" [] c = "Z" -> "z"
    [] OTHER -> c

\* strings.EqualFold(a, b)
EqualFold(a, b) ==
  /\ Len(a) = Len(b)
  /\ \A i \in 1..Len(a) : Lower(a[i]) = Lower(b[i])

\* strings.TrimSuffix(s, suffix) for a one-byte suffix
TrimSuffix(s, c) ==
  IF Len(s) > 0 /\ s[Len(s)] = c THEN SubSeq(s, 1, Len(s) - 1) ELSE s

\* strings.TrimSpace(s)
RECURSIVE TrimLeft(_)
TrimLeft(s) == IF Len(s) > 0 /\ IsSpace(s[1]) THEN TrimLeft(Tail(s)) ELSE s

RECURSIVE TrimRight(_)
TrimRight(s) ==
  IF Len(s) > 0 /\ IsSpace(s[Len(s)]) THEN TrimRight(SubSeq(s, 1, Len(s) - 1)) ELSE s

TrimSpace(s) == TrimRight(TrimLeft(s))

\* strings.IndexByte(s, c), 1-based, 0 when absent
IndexByte(s, c) ==
  IF \E i \in 1..Len(s) : s[i] = c
  THEN CHOOSE i \in 1..Len(s) : s[i] = c /\ \A j \in 1..(i - 1) : s[j] # c
  ELSE 0

\* strings.SplitN(s, ":", 2)
SplitN(s) ==
  LET i == IndexByte(s, ":") IN
  IF i = 0 THEN <<s>> ELSE <<SubSeq(s, 1, i - 1), SubSeq(s, i + 1, Len(s))>>

RECURSIVE DigitsValue(_)
DigitsValue(s) ==
  IF s = <<>> THEN 0 ELSE 10 * DigitsValue(SubSeq(s, 1, Len(s) - 1)) + DigitVal(s[Len(s)])

\* strconv.Atoi(s): an optional sign and at least one decimal digit
Atoi(s) ==
  LET signed == Len(s) > 0 /\ s[1] \in {"+", "-"}
      body == IF signed THEN Tail(s) ELSE s
      ok == Len(body) > 0 /\ \A i \in 1..Len(body) : IsDigit(body[i])
  IN IF ~ok THEN [ok |-> FALSE, n |-> 0]
     ELSE [ok |-> TRUE,
           n |-> IF signed /\ s[1] = "-" THEN 0 - DigitsValue(body) ELSE DigitsValue(body)]

\* fmt.Sprintf("%d", n) for n >= 0
RECURSIVE Itoa(_)
Itoa(n) == IF n < 10 THEN <<Digits[n + 1]>> ELSE Itoa(n \div 10) \o <<Digits[(n % 10) + 1]>>

(***************************************************************************)
(* Errors: msg is the class of the text Error() returns, is the sentinel   *)
(* errors.Is finds in the chain.  Only the bare io.EOF has the text "EOF". *)
(***************************************************************************)
Nil == [msg |-> "nil", is |-> ""]
EOF == [msg |-> "EOF", is |-> "EOF"]
ErrUnexpectedEOF == [msg |-> "unexpected EOF", is |-> "ErrUnexpectedEOF"]
Errorf(msg, wrapped) == [msg |-> msg, is |-> wrapped.is]

(***************************************************************************)
(* JSON.  A token is one JSON value as it appears as a member of an        *)
(* envelope; a document is an envelope object (top = Envelope) with its    *)
(* members, or a lone token.                                               *)
(***************************************************************************)
Absent == [t |-> "absent", s |-> ""]
Null == [t |-> "null", s |-> "null"]
True == [t |-> "bool", s |-> "true"]
Arr == [t |-> "array", s |-> "[]"]
Str(s) == [t |-> "string", s |-> s]
Num(s) == [t |-> "number", s |-> s]
Obj(s) == [t |-> "object", s |-> s]
Envelope == [t |-> "envelope", s |-> ""]

Quote == <<"\"">>

TokBytes(tok) ==
  IF tok.t = "string" THEN Quote \o Bytes(tok.s) \o Quote ELSE Bytes(tok.s)

Member(name, tok) ==
  IF tok = Absent THEN <<>> ELSE Quote \o Bytes(name) \o Quote \o <<":">> \o TokBytes(tok)

RECURSIVE Join(_)
Join(ms) ==
  IF ms = <<>> THEN <<>>
  ELSE IF Head(ms) = <<>> THEN Join(Tail(ms))
  ELSE LET r == Join(Tail(ms)) IN
       IF r = <<>> THEN Head(ms) ELSE Head(ms) \o <<",">> \o r

Doc(top, jsonrpc, id, method, params) ==
  [top |-> top, jsonrpc |-> jsonrpc, id |-> id, method |-> method, params |-> params]

Scalar(tok) == Doc(tok, Absent, Absent, Absent, Absent)

\* the JSON text of a document
Text(d) ==
  IF d.top = Envelope
  THEN <<"{">> \o Join(<<Member("jsonrpc", d.jsonrpc), Member("id", d.id),
                         Member("method", d.method), Member("params", d.params)>>) \o <<"}">>
  ELSE TokBytes(d.top)

JsonrpcToks == {Absent, Str("2.0"), Num("1")}
IdToks == {Absent, Null, Str("a"), Num("1"), Num("9007199254740993"), True}
MethodToks == {Absent, Str("initialize"), Str("tools/list"), Str("tools/call"),
               Str("unknown"), Str("resources/read"), Num("1")}
ParamToks == {Absent, Null, Arr, Obj("{}"), Obj("{\"name\":\"add\"}"),
              Obj("{\"name\":\"add\",\"arguments\":[ 1]}"),
              Obj("{\"name\":\"ghost\"}")}
ScalarToks == {Null, True, Arr, Str("a"), Str(""), Num("1"), Num("9007199254740993")}

JSONDocs ==
  {Doc(Envelope, j, i, m, p) : j \in JsonrpcToks, i \in IdToks, m \in MethodToks, p \in ParamToks}
    \cup {Scalar(tok) : tok \in ScalarToks}

\* bytes.HasPrefix(s, p)
HasPrefix(s, p) == Len(s) >= Len(p) /\ SubSeq(s, 1, Len(p)) = p

\* the key of the member called name, with its colon
MemberKey(name) == Quote \o Bytes(name) \o Quote \o <<":">>

\* the tokens of toks that start s and are followed there by "," or "}"
Fits(s, toks) ==
  {t \in toks \ {Absent} :
     /\ HasPrefix(s, TokBytes(t))
     /\ Len(s) > Len(TokBytes(t))
     /\ s[Len(TokBytes(t)) + 1] \in {",", "}"}}

\* the token t read off the head of s, and the bytes after it and its comma
TakeToken(s, t, n) ==
  [tok |-> t, rest |-> SubSeq(s, IF s[n + 1] = "," THEN n + 2 ELSE n + 1, Len(s))]

\* the value of a member whose key ended where after starts: one of fits
TakeValue(s, after, fits) ==
  IF fits = {} THEN [tok |-> Absent, rest |-> s]
  ELSE TakeToken(after, CHOOSE t \in fits : TRUE, Len(TokBytes(CHOOSE t \in fits : TRUE)))

\* the member called name at the head of s, its value one of toks: the token
\* (Absent when s does not start with that member) and the bytes after it
MemberAt(s, name, toks) ==
  IF HasPrefix(s, MemberKey(name))
  THEN TakeValue(s, SubSeq(s, Len(MemberKey(name)) + 1, Len(s)),
                 Fits(SubSeq(s, Len(MemberKey(name)) + 1, Len(s)), toks))
  ELSE [tok |-> Absent, rest |-> s]

\* the document read off data member by member; it is the document of data
\* exactly when its text is data
Scan(data) ==
  IF \E t \in ScalarToks : TokBytes(t) = data
  THEN Scalar(CHOOSE t \in ScalarToks : TokBytes(t) = data)
  ELSE LET j == MemberAt(IF data = <<>> THEN <<>> ELSE Tail(data), "jsonrpc", JsonrpcToks)
           i == MemberAt(j.rest, "id", IdToks)
           m == MemberAt(i.rest, "method", MethodToks)
           p == MemberAt(m.rest, "params", ParamToks)
       IN Doc(Envelope, j.tok, i.tok, m.tok, p.tok)

Parse(data) == Scan(data)

(***************************************************************************)
(* Go values.  A RequestID holds nil, a string or a float64 (written as    *)
(* the text json.Marshal gives it); NilPtr is the nil *RequestID.          *)
(***************************************************************************)
NilPtr == [k |-> "nilptr", v |-> ""]
IDNil == [k |-> "nil", v |-> ""]
IDString(s) == [k |-> "string", v |-> s]
IDFloat(s) == [k |-> "float64", v |-> s]

\* strconv.ParseFloat followed by the formatting of json.Marshal(float64)
Float64(s) == IF s = "9007199254740993" THEN "9007199254740992" ELSE s

\* func (r *RequestID) MarshalJSON() ([]byte, error)
MarshalJSON(r) ==
  CASE r.k = "nil" -> Null
    [] r.k = "string" -> Str(r.v)
    [] r.k = "float64" -> Num(r.v)

\* func (r *RequestID) UnmarshalJSON(data []byte) error
\* json.Unmarshal of the token null into a string is a no-op without error,
\* so the first branch also takes null and stores the empty string.
UnmarshalJSON(tok) ==
  IF tok.t \in {"string", "null"}
  THEN [ok |-> TRUE, id |-> IDString(IF tok.t = "string" THEN tok.s ELSE "")]
  ELSE IF tok.t = "number"
  THEN [ok |-> TRUE, id |-> IDFloat(Float64(tok.s))]
  ELSE [ok |-> FALSE, id |-> NilPtr]

\* encoding/json storing a member into a field of type RequestID, no
\* pointer: UnmarshalJSON is called for every token, null included
UnmarshalIDValue(tok) ==
  IF tok = Absent THEN [ok |-> TRUE, id |-> NilPtr] ELSE UnmarshalJSON(tok)

\* encoding/json storing a member into a field of type *RequestID: the token
\* null sets the pointer to nil without calling UnmarshalJSON
UnmarshalIDField(tok) ==
  IF tok \in {Absent, Null} THEN [ok |-> TRUE, id |-> NilPtr] ELSE UnmarshalJSON(tok)

\* encoding/json storing a member into a field of type string
StringFieldOk(tok) == tok.t \in {"absent", "null", "string"}

\* raw holds the bytes of a json.RawMessage value
GoValue(type, jsonrpc, id, method, params) ==
  [type |-> type, jsonrpc |-> jsonrpc, id |-> id, method |-> method, params |-> params,
   raw |-> <<>>]

ZeroRequest == GoValue("Request", "", NilPtr, "", Absent)
ZeroRequestID == GoValue("RequestID", "", IDNil, "", Absent)
NilValue == GoValue("nil", "", NilPtr, "", Absent)
RawMessage(data) == [GoValue("RawMessage", "", NilPtr, "", Absent) EXCEPT !.raw = data]

\* json.Marshal(v) as a document
MarshalDoc(v) ==
  CASE v.type = "Request" ->
         Doc(Envelope, Str(v.jsonrpc),
             IF v.id = NilPtr THEN Absent ELSE MarshalJSON(v.id),
             Str(v.method), v.params)
    [] v.type = "RequestID" -> Scalar(MarshalJSON(v.id))
    [] v.type = "nil" -> Scalar(Null)
    [] v.type = "RawMessage" -> Parse(v.raw)

\* json.Marshal(v)
Marshal(v) == Text(MarshalDoc(v))

\* a Go value encoding/json has no encoding for: a channel
Unsupported == GoValue("chan", "", NilPtr, "", Absent)

\* json.Marshal(v) returns an error (*json.UnsupportedTypeError)
MarshalErr(v) == v.type = "chan"

\* json.Unmarshal storing the document d, whose text is data, into a target of
\* Go type T holding target
UnmarshalDoc(T, d, data, target) ==
  CASE T = "RawMessage" -> [err |-> "nil", value |-> RawMessage(data)]
    [] T = "RequestID" ->
         LET u == UnmarshalJSON(d.top) IN
         IF u.ok THEN [err |-> "nil", value |-> GoValue("RequestID", "", u.id, "", Absent)]
         ELSE [err |-> "json", value |-> target]
    [] T = "Request" ->
         IF d.top = Null THEN [err |-> "nil", value |-> target]
         ELSE IF d.top # Envelope THEN [err |-> "json", value |-> target]
         ELSE LET u == UnmarshalIDField(d.id) IN
              [err |-> IF StringFieldOk(d.jsonrpc) /\ u.ok /\ StringFieldOk(d.method)
                       THEN "nil" ELSE "json",
               value |-> GoValue("Request",
                                 IF d.jsonrpc.t = "string" THEN d.jsonrpc.s ELSE target.jsonrpc,
                                 IF d.id = Absent \/ ~u.ok THEN target.id ELSE u.id,
                                 IF d.method.t = "string" THEN d.method.s ELSE target.method,
                                 IF d.params = Absent THEN target.params ELSE d.params)]

\* json.Unmarshal(data, &target) for a target of Go type T holding target
\* json.Unmarshal after its scanner read d off data: the scanner of
\* encoding/json (checkValid) accepts data when it is one well-formed JSON
\* value, that is, the text of a document of JSONDocs
UnmarshalScanned(T, d, data, target) ==
  IF Text(d) # data THEN [err |-> "json", value |-> target]
  ELSE UnmarshalDoc(T, d, data, target)

Unmarshal(T, data, target) == UnmarshalScanned(T, Scan(data), data, target)

(***************************************************************************)
(* protocol.LengthPrefixedCodec.  The codec reads through one bufio.Reader *)
(* kept for its lifetime, so the bytes it has not consumed are its buffer  *)
(* followed by the unread stream: wire.                                    *)
(***************************************************************************)
maxHeaders == 32

ContentLength == <<"C","o","n","t","e","n","t","-","L","e","n","g","t","h">>

\* the header Encode writes: fmt.Sprintf("Content-Length: %d\r\n\r\n", len(data))
Header(n) == ContentLength \o <<":", " ">> \o Itoa(n) \o <<CR, LF, CR, LF>>

\* an Encode that ends each frame with a newline, as json.Encoder does
FrameDelimited(data) == Header(Len(data)) \o data \o <<LF>>

\* the two writes of Encode: the header for data, then data
Frame(data) == Header(Len(data)) \o data

\* func (c *LengthPrefixedCodec) Encode(v interface{}) error: the bytes
\* written, none when json.Marshal fails
Encode(v) == IF MarshalErr(v) THEN <<>> ELSE Frame(Marshal(v))

\* the line that ends at the i-th byte of s, the whole of s when i = 0
LineUpTo(s, i) ==
  IF i > 0 THEN [line |-> SubSeq(s, 1, i), err |-> Nil, rest |-> SubSeq(s, i + 1, Len(s))]
  ELSE [line |-> s, err |-> EOF, rest |-> <<>>]

\* bufio.Reader.ReadString('\n') on a stream that ends after s
ReadString(s) == LineUpTo(s, IndexByte(s, LF))

\* c.reader.Read(data) in the place of io.ReadFull: the bytes at hand, fewer
\* than n at the end of the stream, and no error for them
Read(s, n) ==
  IF Len(s) >= n THEN [data |-> SubSeq(s, 1, n), err |-> Nil, rest |-> SubSeq(s, n + 1, Len(s)),
                       eof |-> FALSE]
  ELSE [data |-> s, err |-> IF Len(s) = 0 THEN EOF ELSE Nil, rest |-> <<>>, eof |-> TRUE]

\* io.ReadFull(c.reader, data) with len(data) = n on a stream that ends after s
ReadFull(s, n) ==
  IF Len(s) >= n THEN [data |-> SubSeq(s, 1, n), err |-> Nil, rest |-> SubSeq(s, n + 1, Len(s)),
                       eof |-> FALSE]
  ELSE [data |-> s, err |-> IF Len(s) = 0 THEN EOF ELSE ErrUnexpectedEOF, rest |-> <<>>,
        eof |-> TRUE]

\* what a Decode call leaves: its error, the value of the target, the bytes
\* not consumed, the body handed to json.Unmarshal, whether the call ran
\* into the end of the stream, and the header lines it read
Outcome(err, value, rest, data, eof, lines) ==
  [err |-> err, value |-> value, rest |-> rest, data |-> data, eof |-> eof, lines |-> lines]

\* how the header loop of Decode ends: its error, contentLength and
\* contentLengthHeaderFound, the bytes after the line r it read last, whether
\* it ran into the end of the stream, and the lines it read
LoopEnd(err, contentLength, contentLengthHeaderFound, r, lines) ==
  [done |-> TRUE, err |-> err, contentLength |-> contentLength,
   found |-> contentLengthHeaderFound, rest |-> r.rest, eof |-> r.err = EOF, lines |-> lines]

\* the loop goes round again after the line r, with contentLength and
\* contentLengthHeaderFound as they stand
LoopAgain(contentLength, contentLengthHeaderFound, r, lines) ==
  [done |-> FALSE, err |-> Nil, contentLength |-> contentLength,
   found |-> contentLengthHeaderFound, rest |-> r.rest, eof |-> FALSE, lines |-> lines]

\* the end of an iteration: the error ReadString gave with the line r
afterLine(r, n, contentLength, contentLengthHeaderFound) ==
  IF r.err = EOF THEN LoopEnd(Nil, contentLength, contentLengthHeaderFound, r, n)
  ELSE LoopAgain(contentLength, contentLengthHeaderFound, r, n)

\* a Content-Length line whose value strconv.Atoi turned into parsed
contentLengthLine(r, parsed, n, contentLength, contentLengthHeaderFound) ==
  IF ~parsed.ok
  THEN LoopEnd(Errorf("invalid Content-Length value", Nil), contentLength,
               contentLengthHeaderFound, r, n)
  ELSE afterLine(r, n, parsed.n, TRUE)

\* a line with a colon: its trimmed key and value
headerField(r, key, value, n, contentLength, contentLengthHeaderFound) ==
  IF ~EqualFold(key, ContentLength)
  THEN afterLine(r, n, contentLength, contentLengthHeaderFound)
  ELSE IF value = <<>>
  THEN LoopEnd(Errorf("invalid Content-Length value: empty", Nil), contentLength,
               contentLengthHeaderFound, r, n)
  ELSE contentLengthLine(r, Atoi(value), n, contentLength, contentLengthHeaderFound)

\* a loop that takes a line without a colon for an error
headerPartsStrict(r, parts, n, contentLength, contentLengthHeaderFound) ==
  IF Len(parts) = 2
  THEN headerField(r, TrimSpace(parts[1]), TrimSpace(parts[2]), n, contentLength,
                   contentLengthHeaderFound)
  ELSE LoopEnd(Errorf("malformed header line", Nil), contentLength, contentLengthHeaderFound,
               r, n)

\* a line that is not empty, split at its first colon
headerParts(r, parts, n, contentLength, contentLengthHeaderFound) ==
  IF Len(parts) = 2
  THEN headerField(r, TrimSpace(parts[1]), TrimSpace(parts[2]), n, contentLength,
                   contentLengthHeaderFound)
  ELSE afterLine(r, n, contentLength, contentLengthHeaderFound)

\* the data ReadString returned, without its line ending
headerLine(r, currentLine, n, contentLength, contentLengthHeaderFound) ==
  IF currentLine = <<>> THEN LoopEnd(Nil, contentLength, contentLengthHeaderFound, r, n)
  ELSE headerParts(r, SplitN(currentLine), n, contentLength, contentLengthHeaderFound)

\* an iteration that takes "\n" for the only line ending
headerReadLF(r, n, contentLength, contentLengthHeaderFound) ==
  IF Len(r.line) > 0
  THEN headerLine(r, TrimSuffix(r.line, LF), n, contentLength, contentLengthHeaderFound)
  ELSE afterLine(r, n, contentLength, contentLengthHeaderFound)

\* one iteration of the loop, on what ReadString returned
headerRead(r, n, contentLength, contentLengthHeaderFound) ==
  IF Len(r.line) > 0
  THEN headerLine(r, TrimSuffix(TrimSuffix(r.line, LF), CR), n, contentLength,
                  contentLengthHeaderFound)
  ELSE afterLine(r, n, contentLength, contentLengthHeaderFound)

RECURSIVE headerLoop(_, _, _, _)

\* the loop after the iteration that ended as it: out, or round again
headerNext(it) ==
  IF it.done THEN it ELSE headerLoop(it.rest, it.lines, it.contentLength, it.found)

\* the header loop of Decode on a stream that ends after s, headerLinesRead
\* lines read so far: [err, contentLength, found, rest, eof, lines]
headerLoop(s, headerLinesRead, contentLength, contentLengthHeaderFound) ==
  IF headerLinesRead + 1 > maxHeaders
  THEN [done |-> TRUE, err |-> Errorf("too many header lines", Nil),
        contentLength |-> contentLength, found |-> contentLengthHeaderFound, rest |-> s,
        eof |-> FALSE, lines |-> headerLinesRead]
  ELSE headerNext(headerRead(ReadString(s), headerLinesRead + 1, contentLength,
                             contentLengthHeaderFound))

\* Decode after json.Unmarshal returned u for the body b
unmarshalBody(h, b, u) ==
  Outcome(IF u.err = "nil" THEN Nil ELSE Errorf("unmarshalling body", Nil),
          u.value, b.rest, b.data, h.eof, h.lines)

\* Decode after io.ReadFull returned b
readBody(h, b, T, target) ==
  IF b.err # Nil
  THEN Outcome(Errorf("reading body", b.err), target, b.rest, b.data, TRUE, h.lines)
  ELSE unmarshalBody(h, b, Unmarshal(T, b.data, target))

\* Decode after its header loop ended as h
afterHeaders(h, T, target) ==
  IF h.err # Nil THEN Outcome(h.err, target, h.rest, <<>>, h.eof, h.lines)
  ELSE IF ~h.found
  THEN Outcome(Errorf("missing Content-Length header", Nil), target, h.rest, <<>>, h.eof, h.lines)
  ELSE IF h.contentLength < 0
  THEN Outcome(Errorf("invalid Content-Length", Nil), target, h.rest, <<>>, h.eof, h.lines)
  ELSE readBody(h, ReadFull(h.rest, h.contentLength), T, target)

\* func (c *LengthPrefixedCodec) Decode(v interface{}) error, on a target of
\* Go type T holding target, reading a stream that ends after s
Decode(s, T, target) == afterHeaders(headerLoop(s, 0, -1, FALSE), T, target)

(***************************************************************************)
(* The Decode of protocol/codec.go, which scans each header line with      *)
(* fmt.Sscanf.                                                             *)
(***************************************************************************)
\* the first space of t, Len(t) + 1 when it has none
TokenEnd(t) ==
  IF \E i \in 1..Len(t) : IsSpace(t[i])
  THEN CHOOSE i \in 1..Len(t) : IsSpace(t[i]) /\ \A j \in 1..(i - 1) : ~IsSpace(t[j])
  ELSE Len(t) + 1

\* t cut at the byte numbered end
TokenAt(t, end) == [tok |-> SubSeq(t, 1, end - 1), rest |-> SubSeq(t, end, Len(t))]

\* the bytes of t up to its first space, and the rest
Token(t) == TokenAt(t, TokenEnd(t))

\* one %s verb of fmt.Sscanf: skip spaces, then take the bytes up to the next space
ScanToken(s) == Token(TrimLeft(s))

\* what fmt.Sscanf returns for the two tokens a and b
Scanned(a, b) ==
  [n |-> (IF a.tok = <<>> THEN 0 ELSE IF b.tok = <<>> THEN 1 ELSE 2),
   key |-> a.tok, value |-> b.tok]

\* the second verb, after the first one scanned a
SscanfNext(a) == Scanned(a, ScanToken(a.rest))

\* fmt.Sscanf(line, "%s %s", &key, &value): [n, key, value]
Sscanf(line) == SscanfNext(ScanToken(line))

\* the run of decimal digits that starts s
RECURSIVE DigitPrefix(_)
DigitPrefix(s) ==
  IF Len(s) > 0 /\ IsDigit(s[1]) THEN <<s[1]>> \o DigitPrefix(Tail(s)) ELSE <<>>

\* the integer of an optional sign and the digits after it
SignedDigits(value, signed, digits) ==
  IF digits = <<>> THEN [ok |-> FALSE, n |-> 0]
  ELSE [ok |-> TRUE,
        n |-> IF signed /\ value[1] = "-" THEN 0 - DigitsValue(digits)
              ELSE DigitsValue(digits)]

\* fmt.Sscanf(value, "%d", &contentLength): an optional sign, then the
\* leading digits; what follows them is left unread
SscanfInt(value) ==
  IF Len(value) > 0 /\ value[1] \in {"+", "-"}
  THEN SignedDigits(value, TRUE, DigitPrefix(Tail(value)))
  ELSE SignedDigits(value, FALSE, DigitPrefix(value))

\* how the header loop of protocol/codec.go ends, r the line it read last
ScanEnd(err, contentLength, r, lines) ==
  [done |-> TRUE, err |-> err, contentLength |-> contentLength, rest |-> r.rest,
   eof |-> r.err # Nil, lines |-> lines]

\* the loop of protocol/codec.go goes round again after the line r
ScanAgain(contentLength, r, lines) ==
  [done |-> FALSE, err |-> Nil, contentLength |-> contentLength, rest |-> r.rest,
   eof |-> FALSE, lines |-> lines]

\* a "Content-Length:" line whose value Sscanf turned into parsed
scanContentLength(r, parsed, contentLength, lines) ==
  IF ~parsed.ok THEN ScanEnd(Errorf("invalid Content-Length", Nil), contentLength, r, lines)
  ELSE ScanAgain(parsed.n, r, lines)

\* a header line, scanned as f
scanField(r, f, contentLength, lines) ==
  IF f.n = 2 /\ f.key = ContentLength \o <<":">>
  THEN scanContentLength(r, SscanfInt(f.value), contentLength, lines)
  ELSE ScanAgain(contentLength, r, lines)

\* a line without its "\n"
scanLine(r, line, contentLength, lines) ==
  IF line = <<CR>> \/ line = <<>> THEN ScanEnd(Nil, contentLength, r, lines)
  ELSE scanField(r, Sscanf(TrimSuffix(line, CR)), contentLength, lines)

\* one iteration of the loop, on what ReadString returned
scanRead(r, contentLength, lines) ==
  IF r.err # Nil THEN ScanEnd(r.err, contentLength, r, lines)
  ELSE scanLine(r, SubSeq(r.line, 1, Len(r.line) - 1), contentLength, lines)

RECURSIVE scanLoop(_, _, _)

\* the loop after the iteration that ended as it: out, or round again
scanNext(it) == IF it.done THEN it ELSE scanLoop(it.rest, it.contentLength, it.lines)

\* the header loop of protocol/codec.go: [err, contentLength, rest, eof, lines]
scanLoop(s, contentLength, linesRead) ==
  scanNext(scanRead(ReadString(s), contentLength, linesRead + 1))

\* Decode of protocol/codec.go after json.Unmarshal returned u for the body b
scanUnmarshal(h, b, u) ==
  Outcome(IF u.err = "nil" THEN Nil ELSE Errorf("json", Nil), u.value, b.rest, b.data, FALSE,
          h.lines)

\* Decode of protocol/codec.go after io.ReadFull returned b
scanBody(h, b, T, target) ==
  IF b.err # Nil THEN Outcome(b.err, target, b.rest, b.data, TRUE, h.lines)
  ELSE scanUnmarshal(h, b, Unmarshal(T, b.data, target))

\* Decode of protocol/codec.go after its header loop ended as h
scanHeaders(h, T, target) ==
  IF h.err # Nil THEN Outcome(h.err, target, h.rest, <<>>, h.eof, h.lines)
  ELSE IF h.contentLength <= 0
  THEN Outcome(Errorf("missing or invalid Content-Length header", Nil), target, h.rest, <<>>,
               FALSE, h.lines)
  ELSE scanBody(h, ReadFull(h.rest, h.contentLength), T, target)

\* func (c *LengthPrefixedCodec) Decode(v interface{}) error of protocol/codec.go
DecodeScan(s, T, target) == scanHeaders(scanLoop(s, 0, 0), T, target)

Variants == {"part_004", "codec.go"}

\* codec.Decode(&target) of the linked source
CodecDecode(v, s, T, target) ==
  IF v = "part_004" THEN Decode(s, T, target) ELSE DecodeScan(s, T, target)

(***************************************************************************)
(* Streams.  A hand-written stream is a run of header lines followed by a  *)
(* tail; class says what the line or the tail is, n the length a           *)
(* Content-Length line declares.                                           *)
(***************************************************************************)
HLine(bytes, class, n) == [bytes |-> bytes, class |-> class, n |-> n]

LowerContentLength == <<"c","o","n","t","e","n","t","-","l","e","n","g","t","h">>

LineLib ==
  { HLine(ContentLength \o <<":", " ", "2", CR, LF>>, "length", 2),
    HLine(LowerContentLength \o <<":", "2", LF>>, "length", 2),
    HLine(ContentLength \o <<":", " ", "0", CR, LF>>, "length", 0),
    HLine(ContentLength \o <<":", " ", "-", "1", CR, LF>>, "negative", -1),
    HLine(ContentLength \o <<":", " ", "a", "b", CR, LF>>, "nonnumeric", 0),
    HLine(ContentLength \o <<":", CR, LF>>, "empty", 0),
    HLine(<<"X", ":", " ", "v", CR, LF>>, "unknown", 0),
    HLine(<<"Z", "z", CR, LF>>, "nocolon", 0),
    HLine(<<" ", ":", " ", "v", CR, LF>>, "emptykey", 0) }

\* a tail: the end of the header block (or its absence) and the body bytes
\* that follow; class "closed" is a stream that ends where a line would
\* start, "partial" one that ends inside a header line
TailOf(bytes, class, body) == [bytes |-> bytes, class |-> class, body |-> body]

TailLib ==
  { TailOf(<<>>, "closed", <<>>),
    TailOf(ContentLength \o <<":", " ", "2">>, "partial", <<>>),
    TailOf(<<"X">>, "partial", <<>>),
    TailOf(<<CR, LF>>, "blank", <<>>),
    TailOf(<<CR, LF, "{">>, "blank", <<"{">>),
    TailOf(<<CR, LF, "{", "}">>, "blank", <<"{", "}">>),
    TailOf(<<LF, "{", "}">>, "blank", <<"{", "}">>),
    TailOf(<<CR, LF, "{", "x">>, "blank", <<"{", "x">>),
    TailOf(<<CR, LF, "{", "}">> \o Header(2) \o <<"{", "}">>, "blank",
           <<"{", "}">> \o Header(2) \o <<"{", "}">>) }

RECURSIVE SeqsUpTo(_, _)
SeqsUpTo(S, n) ==
  IF n = 0 THEN {<<>>}
  ELSE LET shorter == SeqsUpTo(S, n - 1) IN
       shorter \cup {Append(q, x) : q \in shorter, x \in S}

RECURSIVE LineBytes(_)
LineBytes(ls) == IF ls = <<>> THEN <<>> ELSE Head(ls).bytes \o LineBytes(Tail(ls))

\* a run of n header lines without a colon, ahead of the lines of a stream
PadLine == <<"Z", "z", CR, LF>>

RECURSIVE Padding(_)
Padding(n) == IF n = 0 THEN <<>> ELSE PadLine \o Padding(n - 1)

\* enough of them to take a header block to the limit of maxHeaders lines
PadLines == maxHeaders - MaxLines

NoScript == [pad |-> 0, lines |-> <<>>, tail |-> TailOf(<<>>, "none", <<>>)]

\* the values handed to Encode
RequestIDs == {IDNil, IDString("a"), IDFloat("1")}

Values ==
  {GoValue("Request", "2.0", id, "tools/list", Absent) : id \in {NilPtr} \cup RequestIDs}
    \cup {GoValue("RequestID", "", id, "", Absent) : id \in RequestIDs}
    \cup {Unsupported}

Targets == {"RawMessage", "Request"}

Zero(T) ==
  CASE T = "Request" -> ZeroRequest
    [] T = "RequestID" -> ZeroRequestID
    [] T = "RawMessage" -> RawMessage(<<>>)
    [] T = "nil" -> NilValue

\* the connections a server has accepted
Conns == {"c1", "c2"}

\* no server: the codec is used on its own
NoServer ==
  /\ transport = "stdio"
  /\ ctxDone = FALSE
  /\ connDone = [c \in Conns |-> FALSE]
  /\ serve = "accept"
  /\ connCloses = [c \in Conns |-> 0]
  /\ tools = {}
  /\ writing = ""
  /\ posted = [c \in Conns |-> <<>>]
  /\ input = [c \in Conns |-> <<>>]
  /\ inputClosed = [c \in Conns |-> FALSE]
  /\ pc = [c \in Conns |-> "none"]
  /\ decoded = [c \in Conns |-> <<>>]
  /\ settled = [c \in Conns |-> 0]
  /\ active = [c \in Conns |-> {}]
  /\ calls = [c \in Conns |-> <<>>]
  /\ routed = [c \in Conns |-> <<>>]
  /\ output = [c \in Conns |-> <<>>]
  /\ logged = [c \in Conns |-> <<>>]

(***************************************************************************)
(* One codec on one stream.  Either a peer hands whole values to Encode    *)
(* and then closes (script = NoScript), or the stream is hand-written and  *)
(* already closed.                                                         *)
(***************************************************************************)
InitCodecOf(vs) ==
  /\ variant \in vs
  /\ NoServer
  /\ sent = <<>>
  /\ failed = {}
  /\ closers = {}
  /\ rwCloses = 0
  /\ results = <<>>
  /\ consumed = 0
  /\ \/ /\ script = NoScript
        /\ wire = <<>>
        /\ closed = FALSE
        /\ targetType = "RawMessage"
     \/ /\ script \in [pad : {0, PadLines}, lines : SeqsUpTo(LineLib, MaxLines), tail : TailLib]
        /\ wire = Padding(script.pad) \o LineBytes(script.lines) \o script.tail.bytes
        /\ closed = TRUE
        /\ targetType \in Targets

\* a peer calls Encode(v) on the other end of the stream: the frame is
\* written, or Encode returns the error of json.Marshal
DoEncode ==
  /\ ~closed
  /\ Len(sent) < MaxEncodes
  /\ \E v \in Values :
       /\ wire' = wire \o Encode(v)
       /\ IF MarshalErr(v)
          THEN failed' = failed \cup {v} /\ UNCHANGED sent
          ELSE sent' = Append(sent, v) /\ UNCHANGED failed
  /\ UNCHANGED <<variant, closed, closeVars, results, consumed, script, targetType, serverVars>>

\* the peer closes the stream
CloseWrite ==
  /\ ~closed
  /\ closed' = TRUE
  /\ UNCHANGED <<variant, wire, sent, failed, closeVars, results, consumed, script, targetType,
                 serverVars>>

\* codec.Decode(&v) with a fresh v: of the type of the value Encode was handed
\* for this frame, of type targetType otherwise; the call returns once its outcome
\* no longer depends on bytes still to come; the codec has not been closed
DoDecode ==
  /\ closers = {}
  /\ Len(results) < MaxDecodes
  /\ \E T \in {IF Len(results) < Len(sent) THEN sent[Len(results) + 1].type ELSE targetType} :
     \E o \in {CodecDecode(variant, wire, T, Zero(T))} :
       /\ closed \/ ~o.eof
       /\ results' = Append(results,
                            [T |-> T, err |-> o.err, value |-> o.value, data |-> o.data,
                             input |-> wire, from |-> consumed, lines |-> o.lines])
       /\ wire' = o.rest
       /\ consumed' = consumed + (Len(wire) - Len(o.rest))
  /\ UNCHANGED <<variant, closed, sent, failed, closeVars, script, targetType, serverVars>>

NextCodec == DoEncode \/ CloseWrite \/ DoDecode

\* the codec of unnamed/part_004
InitCodec == InitCodecOf({"part_004"})
SpecCodec == InitCodec /\ [][NextCodec]_vars

\* either source of LengthPrefixedCodec
InitCodecs == InitCodecOf(Variants)
SpecCodecs == InitCodecs /\ [][NextCodec]_vars

(***************************************************************************)
(* protocol (jsonrpc.go): errors and responses.  An error value is nil     *)
(* (NilErr), a *protocol.Error or another error; a message is the sequence *)
(* of the pieces of its text.                                              *)
(***************************************************************************)
JSONRPCVersion == "2.0"

ParseError == -32700
InvalidRequest == -32600
MethodNotFound == -32601
InvalidParams == -32602
InternalError == -32603

NoData == "nil"
NilErr == [kind |-> "nil", code |-> 0, message |-> <<>>, data |-> NoData]

\* func NewError(code int, message string, data interface{}) *Error
NewError(code, message, data) ==
  [kind |-> "protocol", code |-> code, message |-> message, data |-> data]

\* an error that is not a *protocol.Error, as fmt.Errorf and errors.New make
PlainError(text) == [kind |-> "plain", code |-> 0, message |-> <<text>>, data |-> NoData]

\* the results of handlers: nil, or a value of the named Go type
NilResult == [type |-> "nil", tools |-> <<>>, info |-> <<>>]
Result(type, ts) == [type |-> type, tools |-> ts, info |-> <<>>]

\* the protocol.InitializeResult of handleInitialize: ProtocolVersion,
\* Capabilities.Tools.ListChanged, ServerInfo.Name, ServerInfo.Version
InitializeResult ==
  [type |-> "InitializeResult", tools |-> <<>>,
   info |-> <<"2024-11-05", FALSE, "zenmcp-server", "0.1.0">>]

\* protocol.Response; re is the position, among the messages decoded on the
\* connection, of the message processMessage was answering
Response(id, result, error, re) ==
  [jsonrpc |-> JSONRPCVersion, id |-> id, result |-> result, error |-> error, re |-> re]

(***************************************************************************)
(* runtime.Router.                                                         *)
(***************************************************************************)
\* func (r *Router) registerCoreHandlers(): the handler table after NewRouter
registerCoreHandlers ==
  [m \in {"initialize", "tools/list", "tools/call"} |->
     CASE m = "initialize" -> "handleInitialize"
       [] m = "tools/list" -> "handleToolsList"
       [] m = "tools/call" -> "handleToolsCall"]

handlers == registerCoreHandlers

\* a handler that takes any params the request carries
ParamsPresent(params) == params.t # "absent"

\* json.Unmarshal(params, &req) for req a struct (InitializeRequest,
\* ToolCallRequest): nil params are no JSON at all, an array is not a struct
ParamsParse(params) == params.t \in {"null", "object"}

\* req.Name after json.Unmarshal(params, &req) for req a ToolCallRequest
ToolName(params) ==
  CASE params.s = "{\"name\":\"add\"}" -> "add"
    [] params.s = "{\"name\":\"add\",\"arguments\":[ 1]}" -> "add"
    [] params.s = "{\"name\":\"ghost\"}" -> "ghost"
    [] OTHER -> ""

\* tool.Handler.Call(ctx, req.Arguments): the code of the tool, which returns
\* what it likes
ToolReturns ==
  { [result |-> Result("ToolCallResult", <<>>), err |-> NilErr],
    [result |-> NilResult, err |-> PlainError("tool failed")],
    [result |-> NilResult, err |-> NewError(InvalidParams, <<"bad arguments">>, NoData)],
    [result |-> Result("ToolCallResult", <<>>), err |-> PlainError("tool failed")] }

\* arguments decoded and encoded again on their way to the tool
ArgumentsCompact(params) ==
  CASE params.s = "{\"name\":\"add\",\"arguments\":[ 1]}" -> "[1]"
    [] OTHER -> "nil"

\* req.Arguments after json.Unmarshal(params, &req) for req a ToolCallRequest:
\* the bytes of the member arguments as the client wrote them, nil without it
Arguments(params) ==
  CASE params.s = "{\"name\":\"add\",\"arguments\":[ 1]}" -> "[ 1]"
    [] OTHER -> "nil"

\* a catalog that finds a tool under every name
GetAny(name, registered) == TRUE

\* func (r *Registry) GetTool(name string) (*ToolDescriptor, bool): exists
GetTool(name, registered) == name \in registered

\* a ListTools that stops after the first tool of the map
ListOne(registered) ==
  IF registered = {} THEN {<<>>} ELSE {<<n>> : n \in registered}

\* func (r *Registry) ListTools() []protocol.ToolDescriptor: one descriptor for
\* each tool of the map, in the order range yields them, which Go leaves open
ListTools(registered) ==
  {ts \in [1..Cardinality(registered) -> registered] :
     \A i, j \in DOMAIN ts : i # j => ts[i] # ts[j]}

\* what a handler did: the (result, error) pair it returns, and the calls of
\* tool.Handler.Call it made on the way
Handled(result, err, invoked) == [result |-> result, err |-> err, invoked |-> invoked]

\* tool.Handler.Call(ctx, req.Arguments) on the tool called name
Call(name, ctx, args) == [tool |-> name, ctx |-> ctx, args |-> args]

\* a handleInitialize that answers with the protocol version the client
\* asked for, which a client that sends null for params leaves empty
handleInitializeNegotiated(params) ==
  IF ~ParamsParse(params)
  THEN {Handled(NilResult,
                NewError(InvalidParams, <<"invalid parameters">>, "err.Error()"), <<>>)}
  ELSE {Handled([InitializeResult EXCEPT
                   !.info = IF params.t = "null" THEN @
                            ELSE <<"", FALSE, "zenmcp-server", "0.1.0">>],
                NilErr, <<>>)}

\* func (r *Router) handleInitialize(ctx *Context, params json.RawMessage)
handleInitialize(params) ==
  IF ~ParamsParse(params)
  THEN {Handled(NilResult,
                NewError(InvalidParams, <<"invalid parameters">>, "err.Error()"), <<>>)}
  ELSE {Handled(InitializeResult, NilErr, <<>>)}

\* func (r *Router) handleToolsList(ctx *Context, params json.RawMessage)
handleToolsList(params, registered) ==
  {Handled(Result("ToolListResult", ts), NilErr, <<>>) : ts \in ListTools(registered)}

\* func (r *Router) handleToolsCall(ctx *Context, params json.RawMessage)
handleToolsCall(ctx, params, registered) ==
  IF ~ParamsParse(params)
  THEN {Handled(NilResult,
                NewError(InvalidParams, <<"invalid parameters">>, "err.Error()"), <<>>)}
  ELSE IF ~GetTool(ToolName(params), registered)
  THEN {Handled(NilResult,
                NewError(MethodNotFound, <<"tool ", ToolName(params), " not found">>, NoData),
                <<>>)}
  ELSE {Handled(t.result, t.err, <<Call(ToolName(params), ctx, Arguments(params))>>) :
          t \in ToolReturns}

\* what the handler stored under name handler may do, called with ctx and
\* params
Returns(handler, ctx, params, registered) ==
  CASE handler = "handleInitialize" -> handleInitialize(params)
    [] handler = "handleToolsList" -> handleToolsList(params, registered)
    [] handler = "handleToolsCall" -> handleToolsCall(ctx, params, registered)

\* a Route that falls back on the initialize handler for a method it does
\* not find
RouteDefault(method) ==
  [exists |-> TRUE,
   handler |-> IF method \in DOMAIN handlers THEN handlers[method] ELSE handlers["initialize"],
   result |-> NilResult, err |-> NilErr]

\* func (r *Router) Route(ctx *Context, method string, params json.RawMessage),
\* up to the call of the handler: the handler to invoke, or none and the
\* (result, error) Route returns at once
Route(method) ==
  IF method \notin DOMAIN handlers
  THEN [exists |-> FALSE, handler |-> "",
        result |-> NilResult, err |-> NewError(MethodNotFound, <<"method not found">>, NoData)]
  ELSE [exists |-> TRUE, handler |-> handlers[method], result |-> NilResult, err |-> NilErr]

\* a Route that hands on the result of the handler only when it succeeded,
\* and its error as an InternalError
RouteWrapped(ret) ==
  IF ret.err = NilErr
  THEN ret
  ELSE [result |-> NilResult,
        err |-> NewError(InternalError, ret.err.message, NoData)]

\* func (r *Router) Route, its last statement: return handler(ctx, params),
\* for ret the (result, error) pair the handler returned
RouteReturn(ret) == ret

(***************************************************************************)
(* mcp.Server: the connection loop.                                        *)
(***************************************************************************)
\* func (s *Server) sendError(codec, id, code, message, data) error
sendError(id, code, message, data, re) ==
  Response(id, NilResult, [kind |-> "protocol", code |-> code, message |-> message,
                           data |-> data], re)

\* a processMessage that encodes the result Route returned without looking
\* at its error
AnswerResult(id, ret, re) == Response(id, ret.result, NilErr, re)

\* a processMessage that puts the result Route returned into the Response
\* next to the error
AnswerBoth(id, ret, re) ==
  IF ret.err # NilErr
  THEN Response(id, ret.result,
                [kind |-> "protocol",
                 code |-> IF ret.err.kind = "protocol" THEN ret.err.code ELSE InternalError,
                 message |-> ret.err.message, data |-> ret.err.data], re)
  ELSE Response(id, ret.result, NilErr, re)

\* a processMessage that answers every error of Route with InternalError
AnswerInternal(id, ret, re) ==
  IF ret.err # NilErr
  THEN sendError(id, InternalError, <<"internal error">>, "err.Error()", re)
  ELSE Response(id, ret.result, NilErr, re)

\* the Response processMessage encodes for what Route returned
Answer(id, ret, re) ==
  IF ret.err # NilErr
  THEN IF ret.err.kind = "protocol"
       THEN sendError(id, ret.err.code, ret.err.message, ret.err.data, re)
       ELSE sendError(id, InternalError, <<"internal error">>, "err.Error()", re)
  ELSE Response(id, ret.result, NilErr, re)

\* the messages clients write
ServerMsgs ==
  { Doc(Envelope, Str("2.0"), Str("a"), Str("initialize"), Obj("{}")),
    Doc(Envelope, Str("2.0"), Num("1"), Str("initialize"), Absent),
    Doc(Envelope, Str("2.0"), Num("1"), Str("tools/list"), Absent),
    Doc(Envelope, Str("2.0"), Str("a"), Str("tools/call"),
        Obj("{\"name\":\"add\",\"arguments\":[ 1]}")),
    Doc(Envelope, Str("2.0"), Num("9007199254740993"), Str("tools/call"),
        Obj("{\"name\":\"ghost\"}")),
    Doc(Envelope, Str("2.0"), Num("1"), Str("tools/call"), Arr),
    Doc(Envelope, Str("2.0"), Str("a"), Str("unknown"), Absent),
    Doc(Envelope, Str("2.0"), Num("1"), Str("resources/read"), Obj("{}")),
    Doc(Envelope, Str("2.0"), Num("1"), Absent, Absent),
    Doc(Envelope, Str("2.0"), Absent, Str("tools/list"), Absent),
    Doc(Envelope, Str("2.0"), Absent, Str("unknown"), Obj("{}")),
    Doc(Envelope, Str("2.0"), Absent, Absent, Obj("{}")),
    Doc(Envelope, Str("2.0"), Null, Str("tools/list"), Absent),
    Doc(Envelope, Str("2.0"), Str("a"), Num("1"), Absent),
    Doc(Envelope, Str("2.0"), Absent, Num("1"), Absent),
    Doc(Envelope, Str("2.0"), True, Str("tools/list"), Absent),
    Scalar(Arr),
    Scalar(Null) }

\* the frame of each of them: what Encode writes for its text
ServerFrames == [d \in ServerMsgs |-> Encode(RawMessage(Text(d)))]

\* the text of each of them
ServerTexts == [d \in ServerMsgs |-> Text(d)]

\* the number of messages in all the sequences of the function f
RECURSIVE Total(_, _)
Total(f, cs) ==
  IF cs = {} THEN 0
  ELSE LET c == CHOOSE c \in cs : TRUE IN Len(f[c]) + Total(f, cs \ {c})

\* NewServer over a transport of ts, then Serve has accepted the connections
\* of accepted and started handleConnection for each
InitServerOf(vs, ts, accepted) ==
  /\ variant \in vs
  /\ wire = <<>>
  /\ closed = FALSE
  /\ sent = <<>>
  /\ failed = {}
  /\ closers = {}
  /\ rwCloses = 0
  /\ transport \in ts
  /\ ctxDone = FALSE
  /\ connDone = [c \in Conns |-> FALSE]
  /\ serve = "accept"
  /\ connCloses = [c \in Conns |-> 0]
  /\ results = <<>>
  /\ consumed = 0
  /\ script = NoScript
  /\ targetType = "RawMessage"
  /\ tools = {}
  /\ writing = ""
  /\ posted = [c \in Conns |-> <<>>]
  /\ input = [c \in Conns |-> <<>>]
  /\ inputClosed = [c \in Conns |-> FALSE]
  /\ pc = [c \in Conns |-> IF c \in accepted THEN "decode" ELSE "none"]
  /\ decoded = [c \in Conns |-> <<>>]
  /\ settled = [c \in Conns |-> 0]
  /\ active = [c \in Conns |-> {}]
  /\ calls = [c \in Conns |-> <<>>]
  /\ routed = [c \in Conns |-> <<>>]
  /\ output = [c \in Conns |-> <<>>]
  /\ logged = [c \in Conns |-> <<>>]

\* func (s *Server) RegisterTool(name, description, handler, inputType), from
\* the call to the return, with no handler reading the map meanwhile
RegisterTool(name) ==
  /\ writing = ""
  /\ name \notin tools
  /\ tools' = tools \cup {name}
  /\ UNCHANGED <<codecVars, ctxVars, connCloses,
                 writing, posted, input, inputClosed, pc, decoded, settled, active, calls,
                 routed, output, logged>>

\* the client of connection c writes the message d as one frame
ClientSend(c, d) ==
  /\ pc[c] # "none"
  /\ ~inputClosed[c]
  /\ Total(posted, Conns) < MaxPosted
  /\ posted' = [posted EXCEPT ![c] = Append(@, d)]
  /\ input' = [input EXCEPT ![c] = @ \o ServerFrames[d]]
  /\ UNCHANGED <<codecVars, ctxVars, connCloses,
                 tools, writing, inputClosed, pc, decoded, settled, active, calls, routed,
                 output, logged>>

\* frames a client gets wrong: the bytes, and what is wrong with them
BrokenFrame(bytes, class) == [bytes |-> bytes, class |-> class]

BrokenFrames ==
  { BrokenFrame(ContentLength \o <<":", " ", "a", "b", CR, LF, CR, LF>>, "nonnumeric"),
    BrokenFrame(<<"X", ":", " ", "v", CR, LF, CR, LF>>, "missing"),
    BrokenFrame(Padding(maxHeaders), "toomany"),
    BrokenFrame(Header(2) \o <<"{">>, "truncated"),
    BrokenFrame(Frame(<<"{", "x">>), "badjson") }

\* the place a broken frame takes among the messages a client has written
Broken(f) == Scalar([t |-> "broken", s |-> f.class])

\* the client of connection c writes the bytes of the broken frame f
ClientSendBroken(c, f) ==
  /\ pc[c] # "none"
  /\ ~inputClosed[c]
  /\ Total(posted, Conns) < MaxPosted
  /\ posted' = [posted EXCEPT ![c] = Append(@, Broken(f))]
  /\ input' = [input EXCEPT ![c] = @ \o f.bytes]
  /\ UNCHANGED <<codecVars, ctxVars, connCloses,
                 tools, writing, inputClosed, pc, decoded, settled, active, calls, routed,
                 output, logged>>

\* the client of connection c closes its side
ClientClose(c) ==
  /\ pc[c] # "none"
  /\ ~inputClosed[c]
  /\ inputClosed' = [inputClosed EXCEPT ![c] = TRUE]
  /\ UNCHANGED <<codecVars, ctxVars, connCloses,
                 tools, writing, posted, input, pc, decoded, settled, active, calls, routed,
                 output, logged>>

\* a loop without the select at its top: it never looks at a context
LoopNoSelect(c) == "decode"

\* handleConnection at the top of its loop, where an iteration starts: the
\* select returns when ctx or conn.Context() is done, and falls through to
\* codec.Decode otherwise
LoopTop(c) == IF ctxDone \/ connDone[c] THEN "closed" ELSE "decode"

\* a handleConnection that returns without closing its connection
NoDefer(c, to) == connCloses

\* defer conn.Close(): it runs when handleConnection returns, that is, when
\* the loop of connection c goes to "closed"
Deferred(c, to) == IF to = "closed" THEN [connCloses EXCEPT ![c] = @ + 1] ELSE connCloses

\* a loop that starts processMessage with go and carries on: it is back at
\* its top while the handler runs
AtDecodeOrHandler(c) == pc[c] \in {"decode", "handler"}

\* handleConnection is at the top of its loop: processMessage is called, not
\* started, so the loop comes back here only after it has returned
AtDecode(c) == pc[c] = "decode"

\* a loop that logs the error of Decode and goes round again
RetryAfterError(err) == "decode"

\* where handleConnection goes after Decode returned the error err: it
\* returns, logged or not, and its deferred conn.Close() runs
AfterError(err) == "closed"

\* handleConnection when codec.Decode(&msg) returns with the outcome o: the
\* message goes to processMessage, or the loop returns on the error
Decoded(c, o) ==
  /\ AtDecode(c)
  /\ inputClosed[c] \/ ~o.eof
  /\ input' = [input EXCEPT ![c] = o.rest]
  /\ IF o.err = Nil
     THEN /\ decoded' = [decoded EXCEPT ![c] = Append(@, o.value.raw)]
          /\ pc' = [pc EXCEPT ![c] = "process"]
          /\ UNCHANGED <<logged, connCloses>>
     ELSE /\ pc' = [pc EXCEPT ![c] = AfterError(o.err)]
          /\ connCloses' = Deferred(c, AfterError(o.err))
          /\ logged' = [logged EXCEPT
                          ![c] = IF o.err.msg = "EOF" THEN @
                                 ELSE Append(@, [text |-> "decode error", err |-> o.err])]
          /\ UNCHANGED decoded
  /\ UNCHANGED <<codecVars, ctxVars, tools, writing, posted, inputClosed, settled, active, calls,
                 routed, output>>

\* handleConnection: codec.Decode(&msg), and the return on its error
ConnDecode(c) ==
  /\ AtDecode(c)
  /\ \E o \in {CodecDecode(variant, input[c], "RawMessage", RawMessage(<<>>))} : Decoded(c, o)

\* a loop that returns once processMessage has answered with an error
SettleOrReturn(c, resps) ==
  /\ output' = [output EXCEPT ![c] = @ \o resps]
  /\ settled' = [settled EXCEPT ![c] = @ + 1]
  /\ \E to \in {IF \E i \in DOMAIN resps : resps[i].error # NilErr
                 THEN "closed" ELSE LoopTop(c)} :
       /\ pc' = [pc EXCEPT ![c] = to]
       /\ connCloses' = Deferred(c, to)

\* processMessage returns after encoding the Responses resps for message k,
\* and the loop starts its next iteration
Settle(c, resps) ==
  /\ output' = [output EXCEPT ![c] = @ \o resps]
  /\ settled' = [settled EXCEPT ![c] = @ + 1]
  /\ pc' = [pc EXCEPT ![c] = LoopTop(c)]
  /\ connCloses' = Deferred(c, LoopTop(c))

\* what Route returned for message k, as processMessage received it
Routed(k, method, ret) == [re |-> k, method |-> method, result |-> ret.result, err |-> ret.err]

\* a processMessage without the check for a nil id
NeverNotification(base) == FALSE

\* if base.ID == nil { return nil }
IsNotification(base) == base.value.id = NilPtr

\* processMessage on message k with base and req as json.Unmarshal left
\* them and r what Route found, up to the call of the handler, or up to its
\* return when no handler is called
Processed(c, k, base, req, r) ==
  /\ pc[c] = "process"
  /\ IF base.err # "nil"
     THEN /\ Settle(c, <<sendError(NilPtr, ParseError, <<"parse error">>, "err.Error()", k)>>)
          /\ UNCHANGED <<active, calls, routed>>
     ELSE IF IsNotification(base)
     THEN /\ Settle(c, <<>>)
          /\ UNCHANGED <<active, calls, routed>>
     ELSE IF req.err # "nil"
     THEN /\ Settle(c, <<sendError(base.value.id, InvalidRequest, <<"invalid request">>,
                                   "err.Error()", k)>>)
          /\ UNCHANGED <<active, calls, routed>>
     ELSE IF ~r.exists
     THEN /\ Settle(c, <<Answer(base.value.id, r, k)>>)
          /\ routed' = [routed EXCEPT ![c] = Append(@, Routed(k, req.value.method, r))]
          /\ UNCHANGED <<active, calls>>
     ELSE /\ active' = [active EXCEPT ![c] = @ \cup {k}]
          /\ calls' = [calls EXCEPT
                         ![c] = Append(@, [re |-> k, handler |-> r.handler,
                                           method |-> req.value.method,
                                           id |-> base.value.id,
                                           params |-> req.value.params,
                                           returned |-> [result |-> NilResult,
                                                         err |-> NilErr],
                                           invoked |-> <<>>])]
          /\ pc' = [pc EXCEPT ![c] = "handler"]
          /\ UNCHANGED <<output, settled, routed, connCloses>>
  /\ UNCHANGED <<codecVars, ctxVars, tools, writing, posted, input, inputClosed, decoded, logged>>

\* processMessage up to the call of the handler Route finds, or up to its
\* return when no handler is called
ConnProcess(c) ==
  /\ pc[c] = "process"
  /\ \E k \in {Len(decoded[c])} :
     \E base \in {Unmarshal("Request", decoded[c][k], ZeroRequest)} :
     \E req \in {Unmarshal("Request", decoded[c][k], ZeroRequest)} :
     \E r \in {Route(req.value.method)} :
       Processed(c, k, base, req, r)

\* the handler returns after reading the catalog as registered, Route returns
\* what it returned, and processMessage encodes the Response
HandlerReturnOn(c, registered) ==
  /\ pc[c] = "handler"
  /\ \E call \in {calls[c][Len(calls[c])]} :
     \E out \in Returns(call.handler, call.id, call.params, registered) :
     \E ret \in {[result |-> out.result, err |-> out.err]} :
       /\ calls' = [calls EXCEPT ![c][Len(calls[c])] =
                                   [@ EXCEPT !.returned = ret, !.invoked = out.invoked]]
       /\ routed' = [routed EXCEPT
                       ![c] = Append(@, Routed(call.re, call.method, RouteReturn(ret)))]
       /\ Settle(c, <<Answer(call.id, RouteReturn(ret), call.re)>>)
       /\ active' = [active EXCEPT ![c] = @ \ {call.re}]
  /\ UNCHANGED <<codecVars, ctxVars, tools, writing, posted, input, inputClosed, decoded, logged>>

\* the handler runs while no RegisterTool does
HandlerReturn(c) ==
  /\ writing = ""
  /\ HandlerReturnOn(c, tools)

\* the tools the program registers while it serves one connection
ServerTools == {"add"}

NextServer ==
  \/ \E name \in ServerTools : RegisterTool(name)
  \/ \E c \in Conns : \E d \in ServerMsgs : ClientSend(c, d)
  \/ \E c \in Conns : \E f \in BrokenFrames : ClientSendBroken(c, f)
  \/ \E c \in Conns : ClientClose(c)
  \/ \E c \in Conns : ConnDecode(c)
  \/ \E c \in Conns : ConnProcess(c)
  \/ \E c \in Conns : HandlerReturn(c)

\* the server with one connection accepted, over the codec of
\* unnamed/part_004, which the stdio transport constructs
InitServer == InitServerOf({"part_004"}, {"stdio"}, {"c1"})
SpecServer == InitServer /\ [][NextServer]_vars

(***************************************************************************)
(* Serve with several connections, and RegisterTool called by the program  *)
(* while Serve runs.  Registry has no lock: the map write of RegisterTool  *)
(* takes from RegisterBegin to RegisterEnd, and a handler that reads the   *)
(* map meanwhile races with it.  Such a read finds the map as it was, or   *)
(* with the new entry, or the Go runtime ends the process (fatal error:    *)
(* concurrent map read and map write; a nil *ToolDescriptor read from a    *)
(* half-written entry panics to the same end).                             *)
(***************************************************************************)
\* the tools the program registers while Serve runs
ServeTools == {"add", "sub"}

\* the requests the clients of Serve send
ServeMsgs ==
  { Doc(Envelope, Str("2.0"), Num("1"), Str("tools/list"), Absent),
    Doc(Envelope, Str("2.0"), Str("a"), Str("tools/call"),
        Obj("{\"name\":\"add\",\"arguments\":[ 1]}")) }

\* the process is running: no goroutine has brought it down
Alive == \A c \in Conns : pc[c] # "crashed"

\* a Serve that calls handleConnection itself: it is back at Accept only when
\* no connection is being handled
ServeInline == serve = "accept" /\ \A c \in Conns : pc[c] \in {"none", "closed"}

\* func (s *Server) Serve: the loop is at s.transport.Accept(ctx), since
\* go s.handleConnection(ctx, conn) returns at once
ServeAtAccept == serve = "accept" /\ Alive

\* the stdio transport hands out one connection (t.accepted), the http
\* transport one for every request
Acceptable(c) == pc[c] = "none" /\ (transport = "http" \/ \A o \in Conns : pc[o] = "none")

\* Serve: Accept returns the connection c, go s.handleConnection starts with
\* its first iteration, and Serve is back at the select of its own loop
Accept(c) ==
  /\ ServeAtAccept
  /\ Acceptable(c)
  /\ pc' = [pc EXCEPT ![c] = LoopTop(c)]
  /\ connCloses' = Deferred(c, LoopTop(c))
  /\ serve' = IF ctxDone THEN "returned" ELSE "accept"
  /\ UNCHANGED <<codecVars, transport, ctxDone, connDone,
                 tools, writing, posted, input, inputClosed, decoded, settled,
                 active, calls, routed, output, logged>>

\* func (r *Registry) RegisterTool: r.tools[name] = ... starts writing the map
RegisterBegin(name) ==
  /\ Alive
  /\ writing = ""
  /\ name \notin tools
  /\ writing' = name
  /\ UNCHANGED <<codecVars, ctxVars, connCloses,
                 tools, posted, input, inputClosed, pc, decoded, settled, active,
                 calls, routed, output, logged>>

\* func (r *Registry) RegisterTool: the map holds the entry, RegisterTool returns
RegisterEnd ==
  /\ Alive
  /\ writing # ""
  /\ tools' = tools \cup {writing}
  /\ writing' = ""
  /\ UNCHANGED <<codecVars, ctxVars, connCloses,
                 posted, input, inputClosed, pc, decoded, settled, active, calls,
                 routed, output, logged>>

\* the handler the connection c is in reads r.tools: ListTools ranges over
\* it, GetTool indexes it once the params have parsed
ReadsCatalog(c) ==
  /\ pc[c] = "handler"
  /\ \/ calls[c][Len(calls[c])].handler = "handleToolsList"
     \/ /\ calls[c][Len(calls[c])].handler = "handleToolsCall"
        /\ ParamsParse(calls[c][Len(calls[c])].params)

\* the handler runs while RegisterTool writes the map, and returns: it has
\* found the map without the new entry or with it
HandlerReturnRacing(c) ==
  /\ writing # ""
  /\ \E registered \in {tools, tools \cup {writing}} : HandlerReturnOn(c, registered)

\* the handler reads the map while RegisterTool writes it, and the process
\* ends with every connection
Fatal(c) ==
  /\ writing # ""
  /\ ReadsCatalog(c)
  /\ pc' = [o \in Conns |-> "crashed"]
  /\ UNCHANGED <<codecVars, ctxVars, connCloses,
                 tools, writing, posted, input, inputClosed, decoded, settled,
                 active, calls, routed, output, logged>>

NextServe ==
  \/ \E name \in ServeTools : RegisterBegin(name)
  \/ RegisterEnd
  \/ \E c \in Conns : Accept(c)
  \/ \E c \in Conns : \E d \in ServeMsgs : ClientSend(c, d)
  \/ \E c \in Conns : ClientClose(c)
  \/ \E c \in Conns : ConnDecode(c)
  \/ \E c \in Conns : ConnProcess(c)
  \/ \E c \in Conns : HandlerReturn(c)
  \/ \E c \in Conns : HandlerReturnRacing(c)
  \/ \E c \in Conns : Fatal(c)

\* NewServer, and Serve about to accept its first connection
InitServe == InitServerOf({"part_004"}, {"http"}, {})
SpecServe == InitServe /\ [][NextServe]_vars

(***************************************************************************)
(* Close.  A codec is closed by whoever holds it: the connection made of   *)
(* it (connImpl.Close, which handleConnection defers) and the transport    *)
(* that keeps it (the stdio Transport.Close, which Server.Close calls).    *)
(* The owner of a codec does not Decode once it has closed it.             *)
(***************************************************************************)
\* the callers of Close on one codec
Closers == {"connection", "transport"}

\* func (c *LengthPrefixedCodec) Close() error { return c.rw.Close() },
\* called by who
DoClose(who) ==
  /\ who \notin closers
  /\ closers' = closers \cup {who}
  /\ rwCloses' = rwCloses + 1
  /\ UNCHANGED <<variant, wire, closed, sent, failed, results, consumed, script, targetType,
                 serverVars>>

NextClose ==
  \/ DoEncode
  \/ CloseWrite
  \/ DoDecode
  \/ \E who \in Closers : DoClose(who)

\* one codec of unnamed/part_004 on a stream a peer writes with Encode
InitClose == InitCodec /\ script = NoScript
SpecClose == InitClose /\ [][NextClose]_vars

(***************************************************************************)
(* Contexts.  Serve hands its ctx to every handleConnection, which hands   *)
(* it on to processMessage.  A connection of the stdio transport carries   *)
(* that same ctx (NewConnection(ctx, t.codec)); a connection of the http   *)
(* transport carries the context of its request (r.Context()), which is    *)
(* done when the request is over, and the request body delivers nothing    *)
(* from then on.                                                           *)
(***************************************************************************)
\* the caller of Serve cancels ctx
Cancel ==
  /\ ~ctxDone
  /\ ctxDone' = TRUE
  /\ connDone' = IF transport = "stdio" THEN [c \in Conns |-> TRUE] ELSE connDone
  /\ UNCHANGED <<codecVars, transport, serve, connCloses, tools, writing, posted, input,
                 inputClosed, pc, decoded, settled, active, calls, routed, output, logged>>

\* http: the request that carries connection c is over
RequestDone(c) ==
  /\ transport = "http"
  /\ ~connDone[c]
  /\ connDone' = [connDone EXCEPT ![c] = TRUE]
  /\ inputClosed' = [inputClosed EXCEPT ![c] = TRUE]
  /\ UNCHANGED <<codecVars, transport, ctxDone, serve, connCloses, tools, writing, posted,
                 input, pc, decoded, settled, active, calls, routed, output, logged>>

\* Serve: s.transport.Accept(ctx) returns ctx.Err() and Serve returns.  The
\* first Accept of the stdio transport does not look at ctx.
ServeReturn ==
  /\ serve = "accept"
  /\ ctxDone
  /\ transport = "http" \/ \E c \in Conns : pc[c] # "none"
  /\ serve' = "returned"
  /\ UNCHANGED <<codecVars, transport, ctxDone, connDone, connCloses, tools, writing, posted,
                 input, inputClosed, pc, decoded, settled, active, calls, routed, output,
                 logged>>

\* runtime.NewContext(ctx, base.ID): the context the handler running on
\* connection c was handed is done
HandlerContextDone(c) == ctxDone

\* the messages the clients send while contexts are cancelled: a request and
\* a notification
CancelMsgs ==
  { Doc(Envelope, Str("2.0"), Num("1"), Str("tools/list"), Absent),
    Doc(Envelope, Str("2.0"), Absent, Str("tools/list"), Absent) }

\* the frame they get wrong
CancelFrames == {BrokenFrame(<<"X", ":", " ", "v", CR, LF, CR, LF>>, "missing")}

NextCancel ==
  \/ Cancel
  \/ \E c \in Conns : RequestDone(c)
  \/ ServeReturn
  \/ \E c \in Conns : Accept(c)
  \/ \E c \in Conns : \E d \in CancelMsgs : ClientSend(c, d)
  \/ \E c \in Conns : \E f \in CancelFrames : ClientSendBroken(c, f)
  \/ \E c \in Conns : ClientClose(c)
  \/ \E c \in Conns : ConnDecode(c)
  \/ \E c \in Conns : ConnProcess(c)
  \/ \E c \in Conns : HandlerReturn(c)

\* NewServer over either transport, and Serve about to accept
InitCancel == InitServerOf({"part_004"}, {"stdio", "http"}, {})
SpecCancel == InitCancel /\ [][NextCancel]_vars

(***************************************************************************)
(* Properties of the codec.  On a hand-written stream the first Decode     *)
(* reads the header block script.lines and then script.tail.               *)
(***************************************************************************)
HandWritten == script # NoScript /\ Len(results) >= 1

\* header lines Decode is meant to skip, and those it is meant to accept
Ignored == {"unknown", "nocolon", "emptykey"}
WellFormed(ls) == \A i \in DOMAIN ls : ls[i].class \in Ignored \cup {"length"}
Malformed == {"negative", "nonnumeric", "empty"}

\* the length declared by the last Content-Length line of ls, -1 if none
Declared(ls) ==
  LET at == {i \in DOMAIN ls : ls[i].class = "length"} IN
  IF at = {} THEN -1 ELSE ls[CHOOSE i \in at : \A j \in at : j <= i].n

\* the offset in the stream at which the frame of the i-th Encode starts
RECURSIVE FrameStart(_)
FrameStart(i) == IF i <= 1 THEN 0 ELSE FrameStart(i - 1) + Len(Encode(sent[i - 1]))

\* the offset at which the i-th Decode stopped reading
ReadUpTo(i) == IF i < Len(results) THEN results[i + 1].from ELSE consumed

\* C1 (as stated): whatever value Encode was handed, Decode on the bytes it
\* produced succeeds and yields a value equal to it, ids included.
C1_RoundTrip ==
  \A i \in 1..Len(results) :
    i <= Len(sent) => results[i].err = Nil /\ results[i].value = sent[i]

\* C2 (as stated): the i-th Decode returns the value of the i-th Encode, and
\* reads the bytes of the i-th frame, all of them and no others.
C2_Pipelining ==
  \A i \in 1..Len(results) :
    i <= Len(sent) =>
      /\ results[i].err = Nil
      /\ results[i].value = sent[i]
      /\ results[i].from = FrameStart(i)
      /\ ReadUpTo(i) = FrameStart(i + 1)

\* the lines of the header block of a hand-written stream, the empty line
\* (or the line the stream ends in) counted
BlockLines == script.pad + Len(script.lines) + 1

\* the stream ends after a complete header block, of no more than maxHeaders
\* lines, that declares more body bytes than follow it
BodyCutShort ==
  /\ HandWritten
  /\ script.tail.class = "blank"
  /\ BlockLines <= maxHeaders
  /\ WellFormed(script.lines)
  /\ Declared(script.lines) > Len(script.tail.body)

\* C7 (as stated): a body cut short, with some of its bytes or with none,
\* fails Decode with the unexpected-end-of-stream error and leaves the target
\* as it was.
C7_BodyCutShortIsUnexpectedEOF ==
  BodyCutShort =>
    /\ results[1].err.is = "ErrUnexpectedEOF"
    /\ results[1].value = Zero(results[1].T)

\* C7 (amended): a body cut short after a header block of at most maxHeaders
\* lines fails Decode with a "reading body" error
\* that is never the bare io.EOF and leaves the target as it was; the error
\* wraps io.ErrUnexpectedEOF when some body bytes arrived and io.EOF when none
\* did.
C7_BodyCutShortFails ==
  BodyCutShort =>
    /\ results[1].err.msg = "reading body"
    /\ results[1].err # EOF
    /\ results[1].err.is =
         (IF script.tail.body = <<>> THEN "EOF" ELSE "ErrUnexpectedEOF")
    /\ results[1].value = Zero(results[1].T)

\* a Decode has met a header block followed by no body byte at all
C7_NoBodyByteArrived ==
  BodyCutShort /\ script.tail.body = <<>> /\ results[1].err.msg = "reading body"

\* C8 (as stated): a Decode that starts on a closed stream with no byte left
\* returns plain io.EOF, and no Decode that has read bytes of a frame does.
C8_CleanCloseIsPlainEOF ==
  \A i \in 1..Len(results) :
    IF results[i].input = <<>> THEN results[i].err = EOF ELSE results[i].err # EOF

\* the stream ends inside a header block: after at least one byte of it and
\* before its empty line
HeaderCutShort ==
  /\ HandWritten
  /\ WellFormed(script.lines)
  /\ \/ script.tail.class = "partial"
     \/ script.tail.class = "closed" /\ script.lines # <<>>

\* C9 (as stated): a header block cut short fails Decode with the
\* unexpected-end-of-stream error, with or without a Content-Length line in it.
C9_HeaderCutShortIsUnexpectedEOF ==
  HeaderCutShort => results[1].err.is = "ErrUnexpectedEOF"

\* C10 (as stated): a complete header block with a Content-Length line whose
\* value is negative, empty or not a number fails Decode with an
\* invalid-Content-Length error and no body is decoded, whatever the other
\* lines of the block.
C10_BadContentLengthFails ==
  ( /\ HandWritten
    /\ script.tail.class = "blank"
    /\ \E i \in DOMAIN script.lines : script.lines[i].class \in Malformed )
  => /\ results[1].err.msg \in {"invalid Content-Length", "invalid Content-Length value",
                                "invalid Content-Length value: empty"}
     /\ results[1].data = <<>>
     /\ results[1].value = Zero(results[1].T)

\* ls without its i-th line
Without(ls, i) == SubSeq(ls, 1, i - 1) \o SubSeq(ls, i + 1, Len(ls))

\* the hand-written stream without the i-th of its header lines
StreamWithout(i) ==
  Padding(script.pad) \o LineBytes(Without(script.lines, i)) \o script.tail.bytes

\* the Decode call that left r and the outcome o agree: the same error or
\* none, the same value in the target, the same body
SameOutcome(r, o) == r.err = o.err /\ r.value = o.value /\ r.data = o.data

C12_HeaderScanBounded ==
  /\ \A i \in 1..Len(results) : results[i].lines <= maxHeaders
  /\ ( /\ HandWritten
       /\ WellFormed(script.lines)
       /\ script.pad + Len(script.lines) >= maxHeaders ) =>
        /\ results[1].err.msg = "too many header lines"
        /\ results[1].data = <<>>
        /\ results[1].value = Zero(results[1].T)
        /\ ReadUpTo(1) <= Len(Padding(script.pad) \o LineBytes(script.lines))

\* a complete header block, within the limit of lines, in which no line
\* is a Content-Length line
NoContentLength ==
  /\ HandWritten
  /\ script.tail.class = "blank"
  /\ BlockLines <= maxHeaders
  /\ \A i \in DOMAIN script.lines : script.lines[i].class \in Ignored

\* the bytes of the empty line that ends the header block of the stream
BlankLine == IF script.tail.bytes[1] = CR THEN 2 ELSE 1

\* C13 (as stated): when the empty line is reached and no Content-Length line
\* came before it, Decode fails with "missing Content-Length header", has
\* read nothing past the empty line and leaves the target as it was.
C13_MissingContentLength ==
  NoContentLength =>
    /\ results[1].err.msg = "missing Content-Length header"
    /\ results[1].data = <<>>
    /\ ReadUpTo(1) = Len(Padding(script.pad) \o LineBytes(script.lines)) + BlankLine
    /\ results[1].value = Zero(results[1].T)

(***************************************************************************)
(* Properties of the router and of the connection loop.                    *)
(***************************************************************************)
\* the k-th message decoded on connection c, as a document: the one among
\* the messages clients write that has its text
Msg(c, k) == CHOOSE d \in ServerMsgs : ServerTexts[d] = decoded[c][k]

\* the first broken frame among the messages the client of c has written,
\* 0 if it has written none
FirstBroken(c) ==
  IF \E j \in DOMAIN posted[c] : posted[c][j].top.t = "broken"
  THEN CHOOSE j \in DOMAIN posted[c] :
         /\ posted[c][j].top.t = "broken"
         /\ \A i \in 1..(j - 1) : posted[c][i].top.t # "broken"
  ELSE 0

\* the errors Decode can return on a broken frame of the named class
FramingErrors(class) ==
  CASE class = "nonnumeric" -> {"invalid Content-Length value"}
    [] class = "missing" -> {"missing Content-Length header"}
    [] class = "toomany" -> {"too many header lines"}
    [] class = "truncated" -> {"reading body", "unmarshalling body"}
    [] class = "badjson" -> {"unmarshalling body"}

\* the Responses written on c for its k-th message, by their place in output
ResponsesTo(c, k) == {i \in 1..Len(output[c]) : output[c][i].re = k}

\* the handlers invoked on c for its k-th message, by their place in calls
CallsFor(c, k) == {i \in 1..Len(calls[c]) : calls[c][i].re = k}

\* d is an object whose id is a string or a number
HasId(d) == d.top = Envelope /\ d.id.t \in {"string", "number"}

\* d has no id member (or is no object at all)
NoId(d) == d.top # Envelope \/ d.id = Absent

\* d is an object whose jsonrpc, id and method members, where it has them,
\* have the JSON types of an envelope
WellTyped(d) ==
  /\ d.top = Envelope
  /\ d.jsonrpc.t \in {"absent", "null", "string"}
  /\ d.id.t \in {"absent", "null", "string", "number"}
  /\ d.method.t \in {"absent", "null", "string"}

\* json.Unmarshal(msg, &base) takes d: a well-typed envelope, or the JSON
\* null, which leaves base as it was
Unmarshals(d) == d.top = Null \/ WellTyped(d)

\* the method Route is called with for the document d
MethodOf(d) == IF d.method.t = "string" THEN d.method.s ELSE ""

\* C3: every Route call for a method of the table has invoked the handler
\* stored under that name, once, and no other; every Route call for another
\* method has invoked none and returned a nil result with the error
\* MethodNotFound (-32601), "method not found", without data.
C3_RouteDispatch ==
  \A c \in Conns :
    /\ \A i \in 1..Len(calls[c]) :
         /\ calls[c][i].method \in {"initialize", "tools/list", "tools/call"}
         /\ calls[c][i].handler = registerCoreHandlers[calls[c][i].method]
         /\ calls[c][i].method = MethodOf(Msg(c, calls[c][i].re))
    /\ \A i \in 1..Len(routed[c]) :
         IF routed[c][i].method \in {"initialize", "tools/list", "tools/call"}
         THEN Cardinality(CallsFor(c, routed[c][i].re)) = 1
         ELSE /\ CallsFor(c, routed[c][i].re) = {}
              /\ routed[c][i].result = NilResult
              /\ routed[c][i].err =
                   [kind |-> "protocol", code |-> -32601, message |-> <<"method not found">>,
                    data |-> NoData]

\* Route has returned both for a method of the table and for one outside it
C3_BothKindsRouted ==
  \E c \in Conns : \E i, j \in 1..Len(routed[c]) :
    /\ routed[c][i].method = "unknown"
    /\ routed[c][j].method = "tools/call"
    /\ CallsFor(c, routed[c][j].re) # {}

\* C14: once the client of a connection has written a broken frame (a
\* Content-Length that is no number or is missing, too many header lines, a
\* body cut short, a body that is no JSON), no message is decoded from that
\* frame or after it, so no handler and no Response is for it; when the loop
\* has met the frame it has logged the framing error, once, has returned and
\* closed the connection, and every message before it is settled.
C14_FramingErrorEndsConnection ==
  \A c \in Conns :
    FirstBroken(c) > 0 =>
      /\ Len(decoded[c]) < FirstBroken(c)
      /\ \A i \in DOMAIN output[c] : output[c][i].re < FirstBroken(c)
      /\ \A i \in DOMAIN calls[c] : calls[c][i].re < FirstBroken(c)
      /\ Len(logged[c]) <= 1
      /\ pc[c] = "closed" =>
           /\ Len(decoded[c]) = FirstBroken(c) - 1
           /\ settled[c] = Len(decoded[c])
           /\ active[c] = {}
           /\ Len(logged[c]) = 1
           /\ logged[c][1].text = "decode error"
           /\ logged[c][1].err.msg \in FramingErrors(posted[c][FirstBroken(c)].top.s)
      /\ logged[c] # <<>> => pc[c] = "closed"

\* a connection has answered a request, then met a broken frame and
\* returned, with bytes the client wrote left unread
C14_ClosedOnFramingError ==
  \E c \in Conns :
    /\ pc[c] = "closed"
    /\ FirstBroken(c) = 2
    /\ Len(output[c]) = 1
    /\ logged[c] # <<>>
    /\ input[c] # <<>>

\* the k-th message of c has been answered with an error Response
ErrorAnswered(c, k) == \E i \in ResponsesTo(c, k) : output[c][i].error # NilErr

\* C15: an error Response does not end the connection.  The loop has
\* returned only if the client closed its side or wrote a broken frame; when
\* processMessage has returned for every message decoded the loop is back at
\* Decode; and a request that follows one answered with an error (method not
\* found, invalid params, the error of a tool) is dispatched and answered as
\* any other.
C15_ProtocolErrorsKeepConnection ==
  \A c \in Conns :
    /\ pc[c] = "closed" => (inputClosed[c] \/ FirstBroken(c) > 0)
    /\ (pc[c] \notin {"none", "closed"} /\ settled[c] = Len(decoded[c])) => pc[c] = "decode"
    /\ \A k, n \in 1..settled[c] :
         (k < n /\ ErrorAnswered(c, k) /\ HasId(Msg(c, n)) /\ WellTyped(Msg(c, n))) =>
           /\ Cardinality(ResponsesTo(c, n)) = 1
           /\ \E j \in DOMAIN routed[c] : routed[c][j].re = n
           /\ MethodOf(Msg(c, n)) \in DOMAIN handlers => CallsFor(c, n) # {}

\* a request has been answered with the result of its handler after the
\* request before it was answered with method not found
C15_AnsweredAfterError ==
  \E c \in Conns :
    /\ settled[c] = 2
    /\ Len(output[c]) = 2
    /\ output[c][1].error.code = MethodNotFound
    /\ output[c][2].error = NilErr
    /\ output[c][2].result # NilResult
    /\ output[c][2].re = 2

\* C16 (as stated): when the client has written whole frames only and has
\* closed its side, the loop returns without logging anything, and with no
\* Response but those to the messages it decoded.
C16_CleanCloseIsSilent ==
  \A c \in Conns :
    (pc[c] = "closed" /\ FirstBroken(c) = 0) =>
      /\ logged[c] = <<>>
      /\ \A i \in DOMAIN output[c] : output[c][i].re \in 1..Len(decoded[c])

\* C17 (as stated): a message whose bytes are no JSON, or are JSON but no
\* well-typed envelope, is answered with a Response that carries the error
\* ParseError and the id null.
C17_MalformedGetsParseError ==
  \A c \in Conns :
    /\ \A k \in 1..settled[c] :
         ~WellTyped(Msg(c, k)) =>
           \E i \in ResponsesTo(c, k) :
             output[c][i].error.code = ParseError /\ output[c][i].id = NilPtr
    /\ ( /\ pc[c] = "closed"
         /\ FirstBroken(c) > 0
         /\ posted[c][FirstBroken(c)].top.s = "badjson" ) =>
           \E i \in DOMAIN output[c] :
             /\ output[c][i].re = FirstBroken(c)
             /\ output[c][i].error.code = ParseError
             /\ output[c][i].id = NilPtr

\* C18: when Route returns an error that is a *protocol.Error, the Response
\* to the request carries the code, the message and the data of that error;
\* when Route returns any other error, the Response carries the code
\* InternalError.
C18_ErrorsPassThrough ==
  \A c \in Conns : \A j \in DOMAIN routed[c] :
    routed[c][j].err # NilErr =>
      \E i \in ResponsesTo(c, routed[c][j].re) :
        IF routed[c][j].err.kind = "protocol"
        THEN /\ output[c][i].error.code = routed[c][j].err.code
             /\ output[c][i].error.message = routed[c][j].err.message
             /\ output[c][i].error.data = routed[c][j].err.data
        ELSE output[c][i].error.code = InternalError

\* a connection on which a tool has failed with a *protocol.Error and a tool
\* has failed with another error, both answered
C18_BothKindsAnswered ==
  \E c \in Conns : \E i, j \in DOMAIN routed[c] :
    /\ routed[c][i].method = "tools/call" /\ routed[c][j].method = "tools/call"
    /\ routed[c][i].err = NewError(InvalidParams, <<"bad arguments">>, NoData)
    /\ routed[c][j].err = PlainError("tool failed")
    /\ ResponsesTo(c, routed[c][i].re) # {} /\ ResponsesTo(c, routed[c][j].re) # {}

\* C19 (as stated): every error Route returns is a *protocol.Error, and the
\* result Route returns with an error is nil.
C19_RouteErrorsStructured ==
  \A c \in Conns : \A j \in DOMAIN routed[c] :
    routed[c][j].err # NilErr =>
      routed[c][j].err.kind = "protocol" /\ routed[c][j].result = NilResult

\* C20: for a method found in the handler table, the result and the error
\* Route returns are the result and the error the invoked handler returned.
C20_RouteTransparent ==
  \A c \in Conns : \A j \in DOMAIN routed[c] :
    routed[c][j].method \in DOMAIN handlers =>
      \E i \in CallsFor(c, routed[c][j].re) :
        /\ calls[c][i].handler = handlers[routed[c][j].method]
        /\ calls[c][i].returned.result = routed[c][j].result
        /\ calls[c][i].returned.err = routed[c][j].err

\* Route has returned the result and the error of a tool that failed with an
\* error that is no *protocol.Error and returned a result with it
C20_ToolFailureHandedOn ==
  \E c \in Conns : \E j \in DOMAIN routed[c] : \E i \in CallsFor(c, routed[c][j].re) :
    /\ routed[c][j].method = "tools/call"
    /\ calls[c][i].returned = [result |-> Result("ToolCallResult", <<>>),
                               err |-> PlainError("tool failed")]
    /\ routed[c][j].result = Result("ToolCallResult", <<>>)
    /\ routed[c][j].err = PlainError("tool failed")

\* the calls of handleToolsCall on c that have returned and whose params
\* parsed
ToolCalls(c) ==
  {i \in DOMAIN calls[c] :
     /\ calls[c][i].handler = "handleToolsCall"
     /\ calls[c][i].re <= settled[c]
     /\ ParamsParse(calls[c][i].params)}

\* C21: a tools/call request that names a tool the catalog does not hold
\* invokes no tool handler and is answered with an error Response of code
\* MethodNotFound (-32601) whose message holds the name of the tool.
C21_UnknownToolNotFound ==
  \A c \in Conns : \A i \in ToolCalls(c) :
    ToolName(calls[c][i].params) \notin tools =>
      /\ calls[c][i].invoked = <<>>
      /\ \E o \in ResponsesTo(c, calls[c][i].re) :
           /\ output[c][o].error.code = MethodNotFound
           /\ output[c][o].result = NilResult
           /\ \E k \in DOMAIN output[c][o].error.message :
                output[c][o].error.message[k] = ToolName(calls[c][i].params)

\* the tool ghost has been called for while the catalog holds the tool add,
\* and the call has been answered
C21_GhostAnswered ==
  \E c \in Conns : \E i \in ToolCalls(c) :
    /\ ToolName(calls[c][i].params) = "ghost"
    /\ tools = {"add"}
    /\ calls[c][i].invoked = <<>>
    /\ \E o \in ResponsesTo(c, calls[c][i].re) : output[c][o].error.code = MethodNotFound

IsPayload(params) == params.t \in {"null", "object"}

\* the calls of handleInitialize and handleToolsCall on c that have returned
ParsingCalls(c) ==
  {i \in DOMAIN calls[c] :
     /\ calls[c][i].handler \in {"handleInitialize", "handleToolsCall"}
     /\ calls[c][i].re <= settled[c]}

\* C23 (as stated): initialize and tools/call return the error InvalidParams
\* exactly when their params do not parse, and then with no result and no
\* tool invoked.
C23_InvalidParamsIffUnparsed ==
  \A c \in Conns : \A i \in ParsingCalls(c) :
    /\ (calls[c][i].returned.err.code = InvalidParams) <=> ~IsPayload(calls[c][i].params)
    /\ ~IsPayload(calls[c][i].params) =>
         calls[c][i].returned.result = NilResult /\ calls[c][i].invoked = <<>>

\* C23 (amended): initialize and tools/call return the error InvalidParams
\* with no result and no tool invoked whenever their params do not parse;
\* when the params parse, initialize never returns InvalidParams, and
\* tools/call returns it only as the error of the tool it has invoked.
C23_InvalidParamsWhenUnparsed ==
  \A c \in Conns : \A i \in ParsingCalls(c) :
    /\ ~IsPayload(calls[c][i].params) =>
         /\ calls[c][i].returned.err.kind = "protocol"
         /\ calls[c][i].returned.err.code = InvalidParams
         /\ calls[c][i].returned.result = NilResult
         /\ calls[c][i].invoked = <<>>
    /\ (IsPayload(calls[c][i].params) /\ calls[c][i].returned.err.code = InvalidParams) =>
         /\ calls[c][i].handler = "handleToolsCall"
         /\ Len(calls[c][i].invoked) = 1

\* initialize without params and tools/call with an array for params have
\* both returned InvalidParams on one connection
C23_BothRejected ==
  \E c \in Conns : \E i, j \in ParsingCalls(c) :
    /\ calls[c][i].handler = "handleInitialize" /\ calls[c][i].params = Absent
    /\ calls[c][j].handler = "handleToolsCall" /\ calls[c][j].params = Arr
    /\ calls[c][i].returned.err.code = InvalidParams
    /\ calls[c][j].returned.err.code = InvalidParams

\* C26 (as stated): the handler table of the router of the server holds a
\* handler for initialize, tools/list, tools/call, resources/list and
\* resources/read, so that no request for one of these methods is answered
\* with the error "method not found" of Route.
C26_CoreAndResourceMethodsRouted ==
  \A c \in Conns : \A k \in 1..settled[c] :
    ( /\ HasId(Msg(c, k)) /\ WellTyped(Msg(c, k))
      /\ MethodOf(Msg(c, k)) \in {"initialize", "tools/list", "tools/call",
                                  "resources/list", "resources/read"} ) =>
        /\ MethodOf(Msg(c, k)) \in DOMAIN handlers
        /\ \A i \in ResponsesTo(c, k) :
             ~( /\ output[c][i].error.code = MethodNotFound
                /\ output[c][i].error.message = <<"method not found">> )

Names(ts) == {ts[i] : i \in DOMAIN ts}

\* the calls of handleToolsList on c that have returned
ListCalls(c) ==
  {i \in DOMAIN calls[c] :
     calls[c][i].handler = "handleToolsList" /\ calls[c][i].re <= settled[c]}

\* C24: when handleToolsList returns, it returns no error and a sequence
\* that holds one descriptor for every tool of the catalog and nothing else
\* (the empty sequence for the empty catalog); the catalog is the map as it
\* is at that moment, with or without the tool a RegisterTool that has not
\* returned yet is storing.
C24_ListIsTheCatalog ==
  [][\A c \in Conns :
       ( /\ pc[c] = "handler"
         /\ settled'[c] = settled[c] + 1
         /\ calls[c][Len(calls[c])].handler = "handleToolsList" ) =>
           /\ routed'[c][Len(routed'[c])].err = NilErr
           /\ routed'[c][Len(routed'[c])].result.type = "ToolListResult"
           /\ Len(routed'[c][Len(routed'[c])].result.tools) =
                Cardinality(Names(routed'[c][Len(routed'[c])].result.tools))
           /\ \/ Names(routed'[c][Len(routed'[c])].result.tools) = tools
              \/ /\ writing # ""
                 /\ Names(routed'[c][Len(routed'[c])].result.tools) = tools \cup {writing}
           /\ output'[c][Len(output'[c])].error = NilErr
    ]_vars

\* tools/list has returned the empty sequence and later, on the same
\* connection, a sequence of two descriptors
C24_ListGrew ==
  \E c \in Conns : \E i, j \in ListCalls(c) :
    /\ i < j
    /\ calls[c][i].returned.result.tools = <<>>
    /\ Names(calls[c][j].returned.result.tools) = {"add", "sub"}
    /\ calls[c][j].returned.err = NilErr

\* C25 (as stated): two tools/list calls that find the same tools in the
\* catalog return the same sequence of descriptors, in the same order.
C25_ListStable ==
  \A c, o \in Conns : \A i \in ListCalls(c) : \A j \in ListCalls(o) :
    Names(calls[c][i].returned.result.tools) = Names(calls[o][j].returned.result.tools) =>
      calls[c][i].returned.result.tools = calls[o][j].returned.result.tools

\* C29 (as stated): no handler reads the catalog while a RegisterTool is
\* writing it.
C29_CatalogAccessExclusive ==
  [][\A c \in Conns :
       (ReadsCatalog(c) /\ settled'[c] = settled[c] + 1) => writing = ""
    ]_vars

\* C30: while the handler of one connection has not returned, Serve can
\* accept a connection, and every other connection can take its next step:
\* decode the frame it has received, process the message it has decoded,
\* return from its own handler.
C30_ConnectionsIndependent ==
  \A c \in Conns :
    pc[c] = "handler" =>
      \A o \in Conns \ {c} :
        /\ pc[o] = "none" => ENABLED Accept(o)
        /\ (pc[o] = "decode" /\ (input[o] # <<>> \/ inputClosed[o])) =>
             \E d \in {CodecDecode(variant, input[o], "RawMessage", RawMessage(<<>>))} :
               ENABLED Decoded(o, d)
        /\ pc[o] = "process" =>
             \E base \in {Unmarshal("Request", decoded[o][Len(decoded[o])], ZeroRequest)} :
             \E r \in {Route(base.value.method)} :
               ENABLED Processed(o, Len(decoded[o]), base, base, r)
        /\ pc[o] = "handler" => ENABLED (HandlerReturn(o) \/ HandlerReturnRacing(o))

\* the handler of one connection has not returned, and another connection,
\* accepted as well, has received a request and answered it
C30_AnsweredBesideBlocked ==
  \E c \in Conns : \E o \in Conns \ {c} :
    /\ pc[c] = "handler" /\ settled[c] = 0
    /\ pc[o] = "decode" /\ settled[o] = 1 /\ Len(output[o]) = 1

\* the id of the Response i on c, as the JSON token Encode writes
WireId(c, i) == IF output[c][i].id = NilPtr THEN Null ELSE MarshalJSON(output[c][i].id)

InDecodeOrder(c) ==
  \A i, j \in 1..Len(output[c]) : i < j => output[c][i].re < output[c][j].re

\* a step decodes a message on c only when no handler is running for c and
\* processMessage has returned for every message decoded before
DecodeWaits ==
  \A c \in Conns :
    Len(decoded'[c]) > Len(decoded[c]) => active[c] = {} /\ settled[c] = Len(decoded[c])

\* C5: on one connection at most one handler runs at any time, the next
\* message is decoded only after processMessage has returned for the one
\* before (its handler has returned and its Response is encoded), and the
\* Responses appear in the order the messages were decoded.
C5_Sequential ==
  /\ [](\A c \in Conns : Cardinality(active[c]) <= 1 /\ InDecodeOrder(c))
  /\ [](\A c \in Conns : \A k \in 1..settled[c] : k \notin active[c])
  /\ [][DecodeWaits]_vars

\* the handler of the first of two requests is running while the second,
\* already written by the client, waits in the input
C5_SecondWaits ==
  \E c \in Conns :
    /\ active[c] = {1}
    /\ Len(posted[c]) = 2
    /\ Len(decoded[c]) = 1
    /\ HasId(posted[c][2])
    /\ output[c] = <<>>

IntoRequestID == {i \in DOMAIN results : results[i].T = "RequestID" /\ results[i].err = Nil}

\* C33 (as stated): a RequestID unmarshalled from a string, number or null
\* token marshals back to that very token.
C33_RequestIDRoundTrip ==
  \A i \in IntoRequestID : Marshal(results[i].value) = results[i].data

\* C34: an Encode call that serializes its value appends to the stream the
\* bytes "Content-Length: N\r\n\r\n" and then the N bytes of json.Marshal(v),
\* and nothing else; an Encode call whose value json.Marshal refuses
\* appends nothing.
C34_EncodeWritesOneFrame ==
  [][/\ sent' # sent =>
          LET body == Marshal(sent'[Len(sent')]) IN
          wire' = wire \o ContentLength \o <<":", " ">> \o Itoa(Len(body))
                       \o <<CR, LF, CR, LF>> \o body
     /\ failed' # failed => wire' = wire /\ sent' = sent]_vars

\* Encode has written one frame and refused a channel, and nothing has been
\* read yet: the stream holds the frame alone
C34_WrittenAndRefused ==
  /\ Len(sent) = 1
  /\ failed = {Unsupported}
  /\ results = <<>>
  /\ wire = Header(Len(Marshal(sent[1]))) \o Marshal(sent[1])

(***************************************************************************)
(* The spelling of the header key.                                         *)
(***************************************************************************)
UpperContentLength == <<"C","O","N","T","E","N","T","-","L","E","N","G","T","H">>

\* three spellings of the key
Casings == {LowerContentLength, ContentLength, UpperContentLength}

\* the bytes of a header line start with the key Content-Length, in any
\* casing, and a colon
HasLengthKey(bytes) ==
  /\ Len(bytes) > Len(ContentLength)
  /\ EqualFold(SubSeq(bytes, 1, Len(ContentLength)), ContentLength)
  /\ bytes[Len(ContentLength) + 1] = ":"

\* the bytes of the header lines ls, with key for the key of every
\* Content-Length line
RECURSIVE Recase(_, _)
Recase(ls, key) ==
  IF ls = <<>> THEN <<>>
  ELSE (IF HasLengthKey(Head(ls).bytes)
        THEN key \o SubSeq(Head(ls).bytes, Len(ContentLength) + 1, Len(Head(ls).bytes))
        ELSE Head(ls).bytes) \o Recase(Tail(ls), key)

\* the hand-written stream with its Content-Length keys spelled key
Recased(key) == Padding(script.pad) \o Recase(script.lines, key) \o script.tail.bytes

\* C35 (as stated): Decode ends the same way (error, value, body) on streams
\* that differ only in the casing of their Content-Length keys.
C35_KeyCaseInsensitive ==
  HandWritten =>
    \A key \in Casings :
      SameOutcome(results[1],
                  CodecDecode(variant, Recased(key), results[1].T, Zero(results[1].T)))

(***************************************************************************)
(* Line endings.                                                           *)
(***************************************************************************)
\* the bytes of a header line without its line ending
Unended(bytes) == TrimSuffix(TrimSuffix(bytes, LF), CR)

\* the line ending the claim's rewriting gives the i-th line of a block:
\* \r\n everywhere, or \n on the odd lines and \r\n on the even ones
Ending(mix, i) == IF mix /\ i % 2 = 1 THEN <<LF>> ELSE <<CR, LF>>

\* the bytes of the header lines ls, the first of them the i-th of its block
RECURSIVE Reended(_, _, _)
Reended(ls, mix, i) ==
  IF ls = <<>> THEN <<>>
  ELSE Unended(Head(ls).bytes) \o Ending(mix, i) \o Reended(Tail(ls), mix, i + 1)

\* the hand-written stream with its line endings rewritten, the one of the
\* empty line included; a last line the stream ends in is left as it is
Rewritten(mix) ==
  Reended([i \in 1..script.pad |-> HLine(PadLine, "nocolon", 0)] \o script.lines, mix, 1)
    \o (IF script.tail.class = "blank"
        THEN Ending(mix, script.pad + Len(script.lines) + 1) \o script.tail.body
        ELSE script.tail.bytes)

\* C36: the first Decode on a stream ends the same way (error, value, body)
\* as Decode on the stream with the same lines all ended \r\n, and as Decode
\* on the stream with the same lines ended \n and \r\n in turn, wherever
\* those are other streams.
C36_LineEndingsInterchangeable ==
  (script # NoScript /\ Len(results) = 1) =>
    \A mix \in BOOLEAN :
      \/ Rewritten(mix) = results[1].input
      \/ SameOutcome(results[1],
                     CodecDecode(variant, Rewritten(mix), results[1].T, Zero(results[1].T)))

\* the bytes end in a bare \n
EndsBare(bytes) ==
  /\ bytes # <<>>
  /\ bytes[Len(bytes)] = LF
  /\ Len(bytes) = 1 \/ bytes[Len(bytes) - 1] # CR

\* the source of protocol/codec.go has decoded a frame whose Content-Length
\* line ends \r\n and whose empty line is a bare \n
C36_MixedBlockDecoded ==
  /\ HandWritten
  /\ variant = "codec.go"
  /\ \E i \in DOMAIN script.lines :
       script.lines[i].class = "length" /\ ~EndsBare(script.lines[i].bytes)
  /\ script.tail.bytes = <<LF, "{", "}">>
  /\ results[1].err = Nil
  /\ results[1].data = <<"{", "}">>

(***************************************************************************)
(* The frame without a body.                                               *)
(***************************************************************************)
\* the stream starts with a complete header block, of no more than
\* maxHeaders lines and none of them at fault, that declares a body of no bytes
DeclaresNoBody ==
  /\ HandWritten
  /\ script.tail.class = "blank"
  /\ BlockLines <= maxHeaders
  /\ WellFormed(script.lines)
  /\ Declared(script.lines) = 0

\* C37 (as stated): on a frame that declares Content-Length: 0, Decode reads
\* the header block and no byte more, without waiting for any, and fails with
\* the error of json.Unmarshal on an empty body; the target is left as it was.
C37_EmptyBodyIsInvalidJSON ==
  DeclaresNoBody =>
    /\ results[1].err.msg \in {"unmarshalling body", "json"}
    /\ results[1].data = <<>>
    /\ results[1].value = Zero(results[1].T)
    /\ ReadUpTo(1) = Len(Padding(script.pad) \o LineBytes(script.lines)) + BlankLine
    /\ ~CodecDecode(variant, results[1].input, results[1].T, Zero(results[1].T)).eof

(***************************************************************************)
(* Close.                                                                  *)
(***************************************************************************)
\* C32 (as stated): once Close has been called on a codec, by the connection,
\* by the transport or by both, with or without Encode and Decode calls
\* before, the underlying stream has received one Close call, no more.
C32_StreamClosedOnce == closers # {} => rwCloses = 1

(***************************************************************************)
(* Properties of the contexts and of the end of handleConnection.          *)
(***************************************************************************)
\* C31 (as stated): while a handler runs for a request of connection c, once
\* the context of c is done the context the handler was handed is done.
C31_HandlerContextFollowsConnection ==
  \A c \in Conns : (pc[c] = "handler" /\ connDone[c]) => HandlerContextDone(c)

\* C39: handleConnection has called conn.Close() once when it has returned
\* and not at all before, whichever way it returned; when it has returned,
\* processMessage has returned for every message Decode delivered, no handler
\* is running, and every request among them has its Response encoded.
C39_ClosedOnceAfterLastMessage ==
  \A c \in Conns :
    /\ connCloses[c] = IF pc[c] = "closed" THEN 1 ELSE 0
    /\ pc[c] = "closed" =>
         /\ settled[c] = Len(decoded[c])
         /\ active[c] = {}
         /\ \A k \in 1..Len(decoded[c]) : HasId(Msg(c, k)) => ResponsesTo(c, k) # {}

\* two connections of the http transport are closed, each once: c1 on a
\* decode error, which is logged, c2 at the select after its request was
\* answered, its stream still open and nothing logged
C39_ClosedOnTwoPaths ==
  /\ connCloses = [c \in Conns |-> 1]
  /\ pc["c1"] = "closed" /\ Len(logged["c1"]) = 1
  /\ pc["c2"] = "closed" /\ logged["c2"] = <<>> /\ ~inputClosed["c2"]
  /\ settled["c2"] = 1 /\ Len(output["c2"]) = 1

\* the step starts an iteration of the loop of connection c: handleConnection
\* has just been started, or processMessage has just returned
StartsIteration(c) ==
  \/ pc[c] = "none" /\ pc'[c] # "none"
  \/ pc[c] \in {"process", "handler"} /\ settled'[c] = settled[c] + 1

\* the step leaves everything handleConnection does for c as it is
Undisturbed(c) ==
  /\ pc'[c] = pc[c]
  /\ decoded'[c] = decoded[c]
  /\ calls'[c] = calls[c]
  /\ output'[c] = output[c]
  /\ settled'[c] = settled[c]
  /\ connCloses'[c] = connCloses[c]

\* C40: an iteration that starts with ctx or conn.Context() done returns, and
\* one that starts with neither done goes on to Decode; after the return
\* nothing is decoded, dispatched or written; a step in which a context
\* becomes done changes nothing of the loop; a blocked Decode ends only by
\* delivering a message or on an error of the stream, a running handler only by
\* returning into an encoded Response; and the loop returns only with every
\* decoded message processed.
C40_CancellationBetweenMessages ==
  [][\A c \in Conns :
       /\ StartsIteration(c) => (pc'[c] = "closed" <=> (ctxDone \/ connDone[c]))
       /\ pc[c] = "closed" => Undisturbed(c)
       /\ (ctxDone' # ctxDone \/ connDone' # connDone) => Undisturbed(c)
       /\ (pc[c] = "decode" /\ pc'[c] # "decode") =>
            \/ pc'[c] = "process" /\ Len(decoded'[c]) = Len(decoded[c]) + 1
            \/ pc'[c] = "closed" /\ (inputClosed[c] \/ logged'[c] # logged[c])
       /\ (pc[c] = "handler" /\ pc'[c] # "handler") =>
            /\ settled'[c] = settled[c] + 1
            /\ Len(output'[c]) = Len(output[c]) + 1
       /\ (pc[c] # "closed" /\ pc'[c] = "closed") => settled'[c] = Len(decoded'[c])
    ]_vars

\* over stdio, ctx was cancelled while the loop was in its first iteration,
\* blocked in Decode or processing: the request was answered all the same,
\* and the loop returned at the select of the second iteration, the stream
\* still open and nothing logged
C40_AnsweredUnderCancellation ==
  \E c \in Conns :
    /\ transport = "stdio"
    /\ ctxDone
    /\ pc[c] = "closed"
    /\ Len(decoded[c]) = 1 /\ settled[c] = 1 /\ Len(output[c]) = 1
    /\ ~inputClosed[c] /\ logged[c] = <<>>

(***************************************************************************)
(* Messages without an id, or with the id null.                            *)
(***************************************************************************)
\* d is an object without an id member, or with the id null
Idless(d) == d.top = Envelope /\ d.id \in {Absent, Null}

\* the Route calls made on c for its k-th message, by their place in routed
RoutesFor(c, k) == {i \in 1..Len(routed[c]) : routed[c][i].re = k}

\* C38 (as stated): for a message whose id is absent or null no Route call
\* and no handler call is made and no Response is written.
C38_IdlessNeverAnswered ==
  \A c \in Conns : \A k \in 1..Len(decoded[c]) :
    Idless(Msg(c, k)) =>
      RoutesFor(c, k) = {} /\ CallsFor(c, k) = {} /\ ResponsesTo(c, k) = {}

\* C38 (amended): for a message whose id is absent or null no Route call and
\* no handler call is made; no Response is written for it when its jsonrpc
\* and method members are strings (or null, or missing), and otherwise one
\* Response is, with the id null and the error ParseError.
C38_IdlessNeverRouted ==
  \A c \in Conns : \A k \in 1..Len(decoded[c]) :
    Idless(Msg(c, k)) =>
      /\ RoutesFor(c, k) = {}
      /\ CallsFor(c, k) = {}
      /\ IF WellTyped(Msg(c, k))
         THEN ResponsesTo(c, k) = {}
         ELSE /\ k <= settled[c] => Cardinality(ResponsesTo(c, k)) = 1
              /\ \A i \in ResponsesTo(c, k) :
                   /\ WireId(c, i) = Null
                   /\ output[c][i].error.code = -32700

\* processMessage is done with a tools/list message whose id is null and
\* with a request for tools/list: the first left no trace, the second has
\* the only Response
C38_NullIdDropped ==
  \E c \in Conns :
    /\ settled[c] = 2
    /\ Msg(c, 1).id = Null /\ MethodOf(Msg(c, 1)) = "tools/list"
    /\ HasId(Msg(c, 2)) /\ MethodOf(Msg(c, 2)) = "tools/list"
    /\ RoutesFor(c, 1) = {} /\ CallsFor(c, 1) = {}
    /\ Len(output[c]) = 1 /\ output[c][1].re = 2

====
